---- MODULE Spec2Model ----
(***************************************************************************)
(* Trainer calendar (projectTrainer-production, MY_CALENDAR_README.md):    *)
(* the data processing pipeline of useCalendarData and the calendar        *)
(* display functions of calendarUtils.                                     *)
(* Notifications (backend-production): the sendNotification helper and the *)
(* admin routes that create and delete notifications.                      *)
(*                                                                         *)
(* Representation.                                                         *)
(*   - A JavaScript Date (local midnight) is the number of days since      *)
(*     1970-01-01: setDate(getDate() + 1) adds one, <= compares numbers,   *)
(*     getDay() is the weekday of that day count.                          *)
(*   - A date string "YYYY-MM-DD" is the tuple <<y, m, d>>; an ISO         *)
(*     datetime string "YYYY-MM-DDT..." is <<y, m, d, "T">>.  Strings of   *)
(*     this shape compare (<=, >=) character by character, which for       *)
(*     zero-padded fields is the lexicographic order of the tuple.         *)
(*   - null / undefined is Null.                                           *)
(***************************************************************************)
EXTENDS Integers, Sequences, FiniteSets, TLC

VARIABLES
    phase,                  \* position of the calendar computation
    fetches,                \* state of each of the four API calls
    availabilityArray,      \* fetched availability records (raw)
    startDate,              \* Date: first day of the displayed range
    endDate,                \* Date: last day of the displayed range
    allBookings,            \* fetched booking requests (raw)
    allEvents,              \* fetched events (raw)
    blockedWeekdays,        \* fetched weekday numbers (0 = Sunday .. 6 = Saturday)
    expandedBlockedDates,   \* Step 6 output: date strings
    filteredBookings,       \* Step 1 output: normalized raw bookings
    eventBookings,          \* Step 2 output: events in booking format
    deduplicatedBookings,   \* Step 3 output
    allCalendarBookings,    \* Step 4 output
    availabilities,         \* Step 5 output: normalized availability records
    blockedDates,           \* explicitly blocked date strings
    calendarDays,           \* buildCalendarDays output: one CalendarDay per date
    notifications,          \* the notification table, in creation order
    nextId,                 \* number of the next generated id
    fcmToken,               \* user id -> registered FCM token, or Null
    fcmLog,                 \* the push sends attempted
    sendPc,                 \* position of the running sendNotification call
    sendUserIds,            \* its userIds array
    sendResults,            \* its results array
    dbNotification,         \* the notification its current iteration created
    user,                   \* the user row its current iteration found
    sendOutcome,            \* what the call returned or threw
    activityLogs,           \* the activity log table
    response,               \* the answer of the admin route handled last
    contactSubmissions,     \* the contact submission table
    listQuery,              \* the query the admin's notification list sends
    messageThreads,         \* the message thread table
    trainerMessages,        \* the legacy trainer message table
    pageEvents,             \* EventsPage: events, the local list
    loading,                \* EventsPage: the loading flag
    selectedEvent,          \* EventsPage: the event open in the details view
    updatingStatus,         \* EventsPage: event id -> status update running
    toast,                  \* EventsPage: the toast shown last
    remoteEvents,           \* the events apiClient.getEvents answers with
    fetchPc,                \* position of the running fetchEvents call
    fetchedEvents,          \* its fetchedEvents
    statusCall,             \* the updateEventStatus call awaited
    deleteCall,             \* the deleteEvent call awaited
    authUser,               \* useAuth: user
    authLoading,            \* useAuth: loading
    checksStarted,          \* number of checkAuth calls started
    authChecks,             \* the checkAuth calls awaiting getCurrentUser
    handledLogout,          \* checksStarted at the auth:logout still in force
    authCalls,              \* the signIn / signUp / signOut calls awaited
    gridDays,               \* CalendarGrid: the days prop
    gridCells               \* CalendarGrid: the cells of the rendered grid

calendarVars ==
    <<phase, fetches, startDate, endDate, allBookings, allEvents,
      availabilityArray, blockedWeekdays, expandedBlockedDates,
      filteredBookings, eventBookings, deduplicatedBookings,
      allCalendarBookings, availabilities, blockedDates, calendarDays>>

notificationVars ==
    <<notifications, nextId, fcmToken, fcmLog, sendPc, sendUserIds,
      sendResults, dbNotification, user, sendOutcome, activityLogs, response>>

\* The admin message tables and the state of the front-end pages.
pageVars ==
    <<contactSubmissions, listQuery, messageThreads, trainerMessages,
      pageEvents, loading, selectedEvent, updatingStatus, toast, remoteEvents,
      fetchPc, fetchedEvents, statusCall, deleteCall,
      authUser, authLoading, checksStarted, authChecks, handledLogout,
      authCalls, gridDays, gridCells>>

vars == <<calendarVars, notificationVars, pageVars>>

Null == <<>>

(***************************************************************************)
(* Bounds of the model.                                                    *)
(***************************************************************************)
MaxRangeDays == 31      \* longest displayed range, in days
MaxBookings == 2        \* raw bookings in one fetch
MaxEvents == 2          \* events in one fetch
MaxDayBookings == 2     \* bookings overlapping one date

(***************************************************************************)
(* JavaScript Date arithmetic (proleptic Gregorian calendar).              *)
(***************************************************************************)
\* new Date(y, m - 1, d): the day count of a civil date.
DateOf(ymd) ==
    LET y   == IF ymd[2] <= 2 THEN ymd[1] - 1 ELSE ymd[1]
        era == y \div 400
        yoe == y - era * 400
        mp  == IF ymd[2] > 2 THEN ymd[2] - 3 ELSE ymd[2] + 9
        doy == (153 * mp + 2) \div 5 + ymd[3] - 1
        doe == yoe * 365 + yoe \div 4 - yoe \div 100 + doy
    IN  era * 146097 + doe - 719468

\* Date.prototype.getDay(): 1970-01-01 was a Thursday (4).
getDay(date) == (date + 4) % 7

\* current.setDate(current.getDate() + 1): the next day, month and year
\* overflow included.
setDateNext(date) == date + 1

\* formatDate(date): the "YYYY-MM-DD" string of a Date.
formatDate(date) ==
    LET z   == date + 719468
        era == z \div 146097
        doe == z - era * 146097
        yoe == (doe - doe \div 1460 + doe \div 36524 - doe \div 146096) \div 365
        doy == doe - (365 * yoe + yoe \div 4 - yoe \div 100)
        mp  == (5 * doy + 2) \div 153
        d   == doy - (153 * mp + 2) \div 5 + 1
        m   == IF mp < 10 THEN mp + 3 ELSE mp - 9
        y   == yoe + era * 400 + (IF m <= 2 THEN 1 ELSE 0)
    IN  <<y, m, d>>

(***************************************************************************)
(* String operations on date strings.                                      *)
(***************************************************************************)
\* s.split('T')[0]
splitT(s) == IF Len(s) > 3 THEN SubSeq(s, 1, 3) ELSE s

\* a <= b on "YYYY-MM-DD" strings
StrLE(a, b) ==
    \/ a[1] < b[1]
    \/ a[1] = b[1] /\ a[2] < b[2]
    \/ a[1] = b[1] /\ a[2] = b[2] /\ a[3] <= b[3]

(***************************************************************************)
(* Step 6: Expand Blocked Weekdays.                                        *)
(***************************************************************************)
RECURSIVE ExpandFrom(_, _, _, _)
ExpandFrom(current, end, weekdays, acc) ==
    IF current <= end
    THEN ExpandFrom(setDateNext(current), end, weekdays,
                    IF getDay(current) \in weekdays
                    THEN Append(acc, formatDate(current))
                    ELSE acc)
    ELSE acc

\* Mutant: the loop stops one day early (current < endDate).
ExpandBlockedWeekdaysExclusiveEnd(start, end, weekdays) ==
    ExpandFrom(start, end - 1, weekdays, <<>>)

\* Mutant: every date of the range is returned.
ExpandEveryDate(start, end, weekdays) ==
    [i \in 1..(end - start + 1) |-> formatDate(start + (i - 1))]

ExpandBlockedWeekdays(start, end, weekdays) ==
    ExpandFrom(start, end, weekdays, <<>>)

(***************************************************************************)
(* Steps 1-4: normalize, convert, deduplicate, combine.                    *)
(***************************************************************************)
\* String.prototype.toLowerCase() on the status strings that occur.
toLowerCase(s) ==
    CASE s = "CONFIRMED" -> "confirmed"
      [] s = "Confirmed" -> "confirmed"
      [] s = "PENDING"   -> "pending"
      [] s = "APPROVED"  -> "approved"
      [] s = "AVAILABLE" -> "available"
      [] s = "Available" -> "available"
      [] OTHER           -> s

\* A raw date value that no date can be parsed from.
Unparseable == <<"?">>

\* normalizeDate(raw): the "YYYY-MM-DD" part of a date or datetime string,
\* null for a missing or unparseable value.
normalizeDate(raw) ==
    IF raw = Null \/ raw = Unparseable THEN Null ELSE splitT(raw)

\* Step 1, the map: requested_date normalized, status lower-cased.
NormalizeBooking(booking) ==
    [booking EXCEPT !.requested_date = normalizeDate(booking.requested_date),
                    !.status = toLowerCase(booking.status)]

\* Step 1, the filter: dateStr >= startStr && dateStr <= endStr.
InDateRange(booking, startStr, endStr) ==
    LET dateStr == splitT(booking.requested_date)
    IN  StrLE(startStr, dateStr) /\ StrLE(dateStr, endStr)

\* Step 1 calls requested_date.split('T') on the normalized date: a
\* TypeError when normalizeDate returned null.
Step1Throws(bookings) ==
    \E i \in 1..Len(bookings) : normalizeDate(bookings[i].requested_date) = Null

FilterBookings(bookings, startStr, endStr) ==
    LET normalized == [i \in 1..Len(bookings) |-> NormalizeBooking(bookings[i])]
        Keep(b) == InDateRange(b, startStr, endStr)
    IN  SelectSeq(normalized, Keep)

\* Mutant: the event's own status is copied.
EventToBookingOwnStatus(event) ==
    [id             |-> event.id,
     course_id      |-> event.courseId,
     requested_date |-> normalizeDate(event.eventDate),
     end_date       |-> normalizeDate(event.endDate),
     status         |-> event.status]

\* Step 2: an event in booking format.
EventToBooking(event) ==
    [id             |-> event.id,
     course_id      |-> event.courseId,
     requested_date |-> normalizeDate(event.eventDate),
     end_date       |-> normalizeDate(event.endDate),
     status         |-> "booked"]

ConvertEvents(events) ==
    [i \in 1..Len(events) |-> EventToBooking(events[i])]

\* `${course_id}:${requested_date}`
Identifier(booking) == <<booking.course_id, booking.requested_date>>

\* Step 3: the identifier set of the event bookings.
EventIdentifiers(evBookings) ==
    {Identifier(evBookings[i]) : i \in 1..Len(evBookings)}

\* Mutant: a confirmed booking is dropped when an event has its course,
\* whatever the event's date.
KeepBookingCourseOnly(booking, identifiers) ==
    IF toLowerCase(booking.status) # "confirmed"
    THEN TRUE
    ELSE ~(\E ident \in identifiers : ident[1] = booking.course_id)

\* Mutant: the status test is missing, every booking matching an event is
\* dropped.
KeepBookingAnyStatus(booking, identifiers) ==
    Identifier(booking) \notin identifiers

\* Step 3: the filter callback.
KeepBooking(booking, identifiers) ==
    IF toLowerCase(booking.status) # "confirmed"
    THEN TRUE
    ELSE IF Identifier(booking) \in identifiers
         THEN FALSE
         ELSE TRUE

\* Mutant: nothing is filtered out.
DeduplicateNothing(bookings, evBookings) == bookings

Deduplicate(bookings, evBookings) ==
    LET identifiers == EventIdentifiers(evBookings)
        Keep(b) == KeepBooking(b, identifiers)
    IN  SelectSeq(bookings, Keep)

\* Mutant: the events are put first.
CombineEventsFirst(dedup, evBookings) == evBookings \o dedup

\* Step 4: [...deduplicatedBookings, ...eventBookings]
Combine(dedup, evBookings) == dedup \o evBookings

\* Mutant: the status is copied as fetched.
NormalizeAvailabilityKeepCase(items) ==
    [i \in 1..Len(items) |->
        [id     |-> items[i].id,
         date   |-> splitT(items[i].date),
         status |-> items[i].status]]

\* Step 5: date cut at 'T', status lower-cased.
NormalizeAvailability(items) ==
    [i \in 1..Len(items) |->
        [id     |-> items[i].id,
         date   |-> splitT(items[i].date),
         status |-> toLowerCase(items[i].status)]]

(***************************************************************************)
(* Calendar display: bookings of a date, blocked dates, day status.        *)
(***************************************************************************)
\* Mutant: the end of a multi-day booking is exclusive.
BookingOnDateExclusiveEnd(booking, dateString) ==
    LET bookingStart == splitT(booking.requested_date)
        bookingEnd   == IF booking.end_date = Null
                        THEN Null
                        ELSE splitT(booking.end_date)
    IN  IF bookingEnd # Null
        THEN /\ StrLE(bookingStart, dateString)
             /\ StrLE(dateString, bookingEnd)
             /\ dateString # bookingEnd
        ELSE bookingStart = dateString

\* The filter callback of getBookingsForDate.
BookingOnDate(booking, dateString) ==
    LET bookingStart == splitT(booking.requested_date)
        bookingEnd   == IF booking.end_date = Null
                        THEN Null
                        ELSE splitT(booking.end_date)
    IN  IF bookingEnd # Null
        THEN StrLE(bookingStart, dateString) /\ StrLE(dateString, bookingEnd)
        ELSE bookingStart = dateString

\* getBookingsForDate calls requested_date.split('T') on every booking: a
\* TypeError for a booking without a date.
MatchThrows(bookings) ==
    \E i \in 1..Len(bookings) : bookings[i].requested_date = Null

getBookingsForDate(bookings, dateString) ==
    LET On(b) == BookingOnDate(b, dateString)
    IN  SelectSeq(bookings, On)

\* Mutant: the first availability record, whatever its date.
FindAvailabilityAnyDate(avails, dateString) ==
    IF Len(avails) > 0 THEN avails[1] ELSE Null

\* The availability record of a date, or Null.
FindAvailability(avails, dateString) ==
    IF \E i \in 1..Len(avails) : avails[i].date = dateString
    THEN LET first == CHOOSE i \in 1..Len(avails) :
                          /\ avails[i].date = dateString
                          /\ \A j \in 1..(i - 1) : avails[j].date # dateString
         IN  avails[first]
    ELSE Null

\* Blocked: the weekday is in blockedWeekdays or the date is explicitly blocked.
IsDateBlocked(date, weekdays, blocked) ==
    getDay(date) \in weekdays \/ formatDate(date) \in blocked

HasStatus(bookings, statuses) ==
    \E i \in 1..Len(bookings) : bookings[i].status \in statuses

\* Priority 4: 'available' for an 'available' record, 'not_available' for
\* a 'not_available' record and for no record.  The README names no display
\* status for a record whose status is 'booked' or 'tentative'; section 4.6
\* of the specification gives 'not_available' for every remaining case.
AvailabilityStatus(avail) ==
    IF avail # Null /\ avail.status = "available"
    THEN "available"
    ELSE "not_available"

\* Mutant: bookings are looked at before the blocked flag.
resolveDayStatusBookedFirst(bookings, avail, blocked) ==
    IF HasStatus(bookings, {"booked", "confirmed"}) THEN "booked"
    ELSE IF blocked THEN "blocked"
    ELSE IF HasStatus(bookings, {"approved", "tentative"}) THEN "tentative"
    ELSE AvailabilityStatus(avail)

\* Mutant: the tentative tier answers with the booking's own status.
resolveDayStatusOwnStatus(bookings, avail, blocked) ==
    IF blocked THEN "blocked"
    ELSE IF HasStatus(bookings, {"booked", "confirmed"}) THEN "booked"
    ELSE IF HasStatus(bookings, {"approved", "tentative"})
         THEN LET i == CHOOSE k \in 1..Len(bookings) :
                           bookings[k].status \in {"approved", "tentative"}
              IN  bookings[i].status
    ELSE AvailabilityStatus(avail)

\* Mutant: the tentative tier is tested before the booked tier.
resolveDayStatusTentativeFirst(bookings, avail, blocked) ==
    IF blocked THEN "blocked"
    ELSE IF HasStatus(bookings, {"approved", "tentative"}) THEN "tentative"
    ELSE IF HasStatus(bookings, {"booked", "confirmed"}) THEN "booked"
    ELSE AvailabilityStatus(avail)

\* Mutant: an 'available' record is tested before the tentative tier.
resolveDayStatusAvailableFirst(bookings, avail, blocked) ==
    IF blocked THEN "blocked"
    ELSE IF HasStatus(bookings, {"booked", "confirmed"}) THEN "booked"
    ELSE IF avail # Null /\ avail.status = "available" THEN "available"
    ELSE IF HasStatus(bookings, {"approved", "tentative"}) THEN "tentative"
    ELSE AvailabilityStatus(avail)

resolveDayStatus(bookings, avail, blocked) ==
    IF blocked THEN "blocked"
    ELSE IF HasStatus(bookings, {"booked", "confirmed"}) THEN "booked"
    ELSE IF HasStatus(bookings, {"approved", "tentative"}) THEN "tentative"
    ELSE AvailabilityStatus(avail)

\* buildCalendarDays, for one date.
BuildCalendarDay(date, bookings, avails, weekdays, blocked) ==
    LET str   == formatDate(date)
        onDay == getBookingsForDate(bookings, str)
        avail == FindAvailability(avails, str)
        isBlk == IsDateBlocked(date, weekdays, blocked)
    IN  [date         |-> date,
         dateString   |-> str,
         bookings     |-> onDay,
         availability |-> avail,
         isBlocked    |-> isBlk,
         status       |-> resolveDayStatus(onDay, avail, isBlk)]

\* Mutant: the last date of the range is left out.
getCalendarGridShort(start, end) ==
    [i \in 1..(end - start) |-> start + (i - 1)]

\* getCalendarGrid: the dates of the displayed range, in order.
getCalendarGrid(start, end) ==
    [i \in 1..(end - start + 1) |-> start + (i - 1)]

buildCalendarDays(dates, bookings, avails, weekdays, blocked) ==
    [i \in 1..Len(dates) |->
        BuildCalendarDay(dates[i], bookings, avails, weekdays, blocked)]

(***************************************************************************)
(* Actions.                                                                *)
(***************************************************************************)
\* useCalendarData, after the fetches: Steps 1 to 6 of the pipeline.  An
\* exception ends the computation.
ProcessData ==
    /\ phase = "fetched"
    /\ IF Step1Throws(allBookings)
       THEN /\ phase' = "error"
            /\ UNCHANGED <<filteredBookings, eventBookings, deduplicatedBookings,
                           allCalendarBookings, availabilities,
                           expandedBlockedDates>>
       ELSE /\ LET filtered == FilterBookings(allBookings, formatDate(startDate),
                                              formatDate(endDate))
                   converted == ConvertEvents(allEvents)
                   dedup     == Deduplicate(filtered, converted)
               IN  /\ filteredBookings' = filtered
                   /\ eventBookings' = converted
                   /\ deduplicatedBookings' = dedup
                   /\ allCalendarBookings' = Combine(dedup, converted)
            /\ availabilities' = NormalizeAvailability(availabilityArray)
            /\ expandedBlockedDates' =
                   ExpandBlockedWeekdays(startDate, endDate, blockedWeekdays)
            /\ phase' = "processed"
    /\ UNCHANGED <<fetches, startDate, endDate, allBookings, allEvents,
                   availabilityArray, blockedWeekdays, blockedDates,
                   calendarDays>>
    /\ UNCHANGED <<notificationVars, pageVars>>

\* MyCalendar: the calendar days of the displayed range.
BuildCalendar ==
    /\ phase = "processed"
    /\ IF MatchThrows(allCalendarBookings) /\ startDate <= endDate
       THEN /\ phase' = "error"
            /\ UNCHANGED calendarDays
       ELSE /\ calendarDays' =
                   buildCalendarDays(getCalendarGrid(startDate, endDate),
                                     allCalendarBookings, availabilities,
                                     blockedWeekdays, blockedDates)
            /\ phase' = "built"
    /\ UNCHANGED <<fetches, startDate, endDate, allBookings, allEvents,
                   availabilityArray, blockedWeekdays, expandedBlockedDates,
                   filteredBookings, eventBookings, deduplicatedBookings,
                   allCalendarBookings, availabilities, blockedDates>>
    /\ UNCHANGED <<notificationVars, pageVars>>

Next == ProcessData \/ BuildCalendar

(***************************************************************************)
(* Initial states: what the fetches returned.                              *)
(***************************************************************************)
BoundedSeq(S, n) == UNION {[1..k -> S] : k \in 0..n}

BookingId(i) == <<"b", i>>
EventId(i) == <<"e", i>>

\* Rows get the ids of their positions: ids are unique within a table.
WithBookingIds(rows) ==
    [i \in 1..Len(rows) |-> [rows[i] EXCEPT !.id = BookingId(i)]]

WithEventIds(rows) ==
    [i \in 1..Len(rows) |-> [rows[i] EXCEPT !.id = EventId(i)]]

RawBooking(course, date, end, status) ==
    [id |-> Null, course_id |-> course, requested_date |-> date,
     end_date |-> end, status |-> status]

RawEvent(course, date, end) ==
    [id |-> Null, courseId |-> course, eventDate |-> date, endDate |-> end]

WithTime(str) == Append(str, "T")

Weekdays == 0..6

\* EventsPage as constructed (useState initial values), nothing fetched.
EventsPageIdle ==
    /\ pageEvents = <<>>
    /\ loading = TRUE
    /\ selectedEvent = Null
    /\ updatingStatus = <<>>
    /\ toast = Null
    /\ remoteEvents = <<>>
    /\ fetchPc = "idle"
    /\ fetchedEvents = <<>>
    /\ statusCall = Null
    /\ deleteCall = Null

\* useAuth as constructed: no user, loading, no call started.
AuthIdle ==
    /\ authUser = Null
    /\ authLoading = TRUE
    /\ checksStarted = 0
    /\ authChecks = {}
    /\ handledLogout = Null
    /\ authCalls = {}

\* No calendar grid rendered.
GridIdle ==
    /\ gridDays = <<>>
    /\ gridCells = Null

\* The front-end components other than the calendar at rest.
FrontEndIdle == EventsPageIdle /\ AuthIdle /\ GridIdle

\* The admin message tables empty, the pages not opened.
PagesIdle ==
    /\ contactSubmissions = <<>>
    /\ listQuery = Null
    /\ messageThreads = <<>>
    /\ trainerMessages = <<>>
    /\ FrontEndIdle

\* The notification side at rest.
NotificationsIdle ==
    /\ notifications = <<>>
    /\ nextId = 1
    /\ fcmToken = <<>>
    /\ fcmLog = <<>>
    /\ sendPc = "idle"
    /\ sendUserIds = <<>>
    /\ sendResults = <<>>
    /\ dbNotification = Null
    /\ user = Null
    /\ sendOutcome = Null
    /\ activityLogs = <<>>
    /\ response = Null

FetchNames == {"bookings", "events", "availability", "blockedDays"}

NothingComputed ==
    /\ phase = "fetched"
    /\ fetches = [f \in FetchNames |-> [state |-> "ok", data |-> <<>>]]
    /\ availabilities = <<>>
    /\ NotificationsIdle
    /\ PagesIdle
    /\ expandedBlockedDates = <<>>
    /\ filteredBookings = <<>>
    /\ eventBookings = <<>>
    /\ deduplicatedBookings = <<>>
    /\ allCalendarBookings = <<>>
    /\ calendarDays = <<>>

\* Blocked-weekday expansion: ranges that start before a month end, a leap
\* day and a year end, and every weekday set.
RangeStarts == {DateOf(<<2024, 3, 1>>), DateOf(<<2024, 2, 27>>), DateOf(<<2023, 12, 28>>)}

InitExpand ==
    /\ NothingComputed
    /\ startDate \in RangeStarts
    /\ endDate \in startDate..(startDate + MaxRangeDays - 1)
    /\ blockedWeekdays \in SUBSET Weekdays
    /\ allBookings = <<>>
    /\ allEvents = <<>>
    /\ availabilityArray = <<>>
    /\ blockedDates = {}

SpecExpand == InitExpand /\ [][Next]_vars

\* Day status resolution: a two-day range, single-day bookings of every
\* status on either day, at most one availability record (datetime date,
\* status in lower, upper or mixed case), blocked weekdays and one
\* explicitly blocked date.
BookingStatuses ==
    {"pending", "approved", "confirmed", "denied", "tentative", "booked", "canceled"}

AvailabilityStatuses == {"available", "not_available", "booked", "tentative"}

RawAvailabilityStatuses == AvailabilityStatuses \cup {"AVAILABLE", "Available"}

DayRangeStart == DateOf(<<2024, 1, 10>>)

DayRange == DayRangeStart..(DayRangeStart + 1)

InitDay ==
    /\ NothingComputed
    /\ startDate = DayRangeStart
    /\ endDate = DayRangeStart + 1
    /\ \E rows \in BoundedSeq({RawBooking("c1", formatDate(d), Null, st) :
                                  d \in DayRange, st \in BookingStatuses},
                               MaxDayBookings) :
           allBookings = WithBookingIds(rows)
    /\ allEvents = <<>>
    /\ availabilityArray \in
           BoundedSeq({[id |-> "a1", date |-> WithTime(formatDate(d)), status |-> st] :
                          d \in DayRange, st \in RawAvailabilityStatuses}, 1)
    /\ blockedWeekdays \in SUBSET {0, getDay(DayRangeStart)}
    /\ blockedDates \in SUBSET {formatDate(DayRangeStart + 1)}

SpecDay == InitDay /\ [][Next]_vars

\* Deduplication: bookings of one course in every status and letter case on
\* the two days of the range, events of two courses on those days.
RawStatuses == BookingStatuses \cup {"CONFIRMED"}

DedupBookingRows ==
    {RawBooking("c1", formatDate(DayRangeStart), Null, st) : st \in RawStatuses}
    \cup {RawBooking("c1", WithTime(formatDate(DayRangeStart + 1)), Null, st) :
              st \in RawStatuses}

DedupEventRows ==
    {RawEvent("c1", WithTime(formatDate(DayRangeStart)), Null),
     RawEvent("c1", formatDate(DayRangeStart + 1), Null),
     RawEvent("c2", WithTime(formatDate(DayRangeStart)), Null)}

InitDedup ==
    /\ NothingComputed
    /\ startDate = DayRangeStart
    /\ endDate = DayRangeStart + 1
    /\ \E rows \in BoundedSeq(DedupBookingRows, MaxBookings) :
           allBookings = WithBookingIds(rows)
    /\ \E rows \in BoundedSeq(DedupEventRows, MaxEvents) :
           allEvents = WithEventIds(rows)
    /\ availabilityArray = <<>>
    /\ blockedWeekdays = {}
    /\ blockedDates = {}

SpecDedup == InitDedup /\ [][Next]_vars

\* Bookings of a date: a four-day range over a year end, bookings that start
\* in the range and end nowhere, in it, after it or before their start.
MatchRangeStart == DateOf(<<2023, 12, 30>>)

MatchRange == MatchRangeStart..(MatchRangeStart + 3)

MatchEnds ==
    {Null}
    \cup {formatDate(d) : d \in MatchRange}
    \cup {WithTime(formatDate(MatchRangeStart + 2)),
          WithTime(formatDate(MatchRangeStart + 4))}

InitMatch ==
    /\ NothingComputed
    /\ startDate = MatchRangeStart
    /\ endDate = MatchRangeStart + 3
    /\ \E rows \in BoundedSeq({RawBooking("c1", formatDate(d), e, "pending") :
                                  d \in MatchRange, e \in MatchEnds},
                               MaxBookings) :
           allBookings = WithBookingIds(rows)
    /\ allEvents = <<>>
    /\ availabilityArray = <<>>
    /\ blockedWeekdays = {}
    /\ blockedDates = {}

SpecMatch == InitMatch /\ [][Next]_vars

\* Bookings that start before the range: a three-day range over a month
\* end, bookings that start the day before it or on its first day and end
\* nowhere or inside it.
EarlyRangeStart == DateOf(<<2024, 2, 29>>)

EarlyStarts == {formatDate(EarlyRangeStart - 1), formatDate(EarlyRangeStart)}

EarlyEnds ==
    {Null, formatDate(EarlyRangeStart), WithTime(formatDate(EarlyRangeStart + 1))}

InitEarly ==
    /\ NothingComputed
    /\ startDate = EarlyRangeStart
    /\ endDate = EarlyRangeStart + 2
    /\ \E rows \in BoundedSeq({RawBooking("c1", d, e, st) :
                                  d \in EarlyStarts, e \in EarlyEnds,
                                  st \in {"confirmed", "pending"}},
                               MaxBookings) :
           allBookings = WithBookingIds(rows)
    /\ allEvents = <<>>
    /\ availabilityArray = <<>>
    /\ blockedWeekdays = {}
    /\ blockedDates = {}

SpecEarly == InitEarly /\ [][Next]_vars

\* Confirmed bookings beside events: a three-day range, single-day and
\* multi-day bookings and events that start on its first two days.
OverlapRangeStart == DateOf(<<2024, 1, 10>>)

OverlapStarts == {formatDate(OverlapRangeStart), formatDate(OverlapRangeStart + 1)}

OverlapEnds == {Null, formatDate(OverlapRangeStart + 2)}

InitOverlap ==
    /\ NothingComputed
    /\ startDate = OverlapRangeStart
    /\ endDate = OverlapRangeStart + 2
    /\ \E rows \in BoundedSeq({RawBooking("c1", d, e, st) :
                                  d \in OverlapStarts, e \in OverlapEnds,
                                  st \in {"confirmed", "pending"}},
                               MaxBookings) :
           allBookings = WithBookingIds(rows)
    /\ \E rows \in BoundedSeq({RawEvent("c1", d, e) :
                                  d \in OverlapStarts, e \in OverlapEnds}
                               \cup {RawEvent("c2", formatDate(OverlapRangeStart), e) :
                                        e \in OverlapEnds},
                               MaxEvents) :
           allEvents = WithEventIds(rows)
    /\ availabilityArray = <<>>
    /\ blockedWeekdays = {}
    /\ blockedDates = {}

SpecOverlap == InitOverlap /\ [][Next]_vars

\* Rows without a usable date: a two-day range, bookings and events whose
\* date is missing, unparseable or a day of the range.
NullDateRangeStart == DateOf(<<2024, 1, 10>>)

NullDateRange == {NullDateRangeStart, NullDateRangeStart + 1}

RawDates ==
    {Null, Unparseable} \cup {WithTime(formatDate(d)) : d \in NullDateRange}

InitNullDate ==
    /\ NothingComputed
    /\ startDate = NullDateRangeStart
    /\ endDate = NullDateRangeStart + 1
    /\ \E rows \in BoundedSeq({RawBooking("c1", d, Null, st) :
                                 d \in RawDates, st \in {"APPROVED", "confirmed"}},
                              MaxBookings) :
           allBookings = WithBookingIds(rows)
    /\ \E rows \in BoundedSeq({RawEvent("c1", d, Null) : d \in RawDates},
                              MaxEvents) :
           allEvents = WithEventIds(rows)
    /\ availabilityArray = <<>>
    /\ blockedWeekdays = {}
    /\ blockedDates = {}

SpecNullDate == InitNullDate /\ [][Next]_vars

\* Events on the calendar: a three-day range over a leap day, events of
\* every lifecycle status that start before or in the range and last one
\* day or to the end of the range, beside a booking of another status, an
\* availability record and a blocked weekday.
EventRangeStart == DateOf(<<2024, 2, 28>>)

EventStatuses == {"ACTIVE", "COMPLETED", "CANCELLED"}

EventRows ==
    {[id |-> Null, courseId |-> "c1", eventDate |-> WithTime(formatDate(d)),
      endDate |-> e, status |-> st] :
        d \in (EventRangeStart - 1)..(EventRangeStart + 1),
        e \in {Null, WithTime(formatDate(EventRangeStart + 2))},
        st \in EventStatuses}

InitEvent ==
    /\ NothingComputed
    /\ startDate = EventRangeStart
    /\ endDate = EventRangeStart + 2
    /\ \E rows \in BoundedSeq(EventRows, MaxEvents) :
           allEvents = WithEventIds(rows)
    /\ allBookings \in
           {<<>>,
            WithBookingIds(<<RawBooking("c1", formatDate(EventRangeStart),
                                        Null, "CONFIRMED")>>),
            WithBookingIds(<<RawBooking("c2", formatDate(EventRangeStart + 1),
                                        Null, "denied")>>)}
    /\ availabilityArray =
           <<[id |-> "a1", date |-> WithTime(formatDate(EventRangeStart)),
              status |-> "not_available"]>>
    /\ blockedWeekdays \in {{}, {getDay(EventRangeStart + 1)}}
    /\ blockedDates = {}

SpecEvent == InitEvent /\ [][Next]_vars

(***************************************************************************)
(* The four API calls of useCalendarData and their join.                   *)
(***************************************************************************)

FetchRangeDays == 7

Pending == [state |-> "pending", data |-> Null]
Failed == [state |-> "failed", data |-> Null]
Fetched(data) == [state |-> "ok", data |-> data]

\* What each call can return for the displayed range.  The blocked-days
\* response is <<set>>, or Null when the body carries no weekday list.
FetchResponses(f) ==
    CASE f = "bookings" ->
            {<<>>,
             WithBookingIds(<<RawBooking("c1", WithTime(formatDate(startDate)),
                                         Null, "APPROVED")>>)}
      [] f = "events" ->
            {<<>>,
             WithEventIds(<<RawEvent("c1", WithTime(formatDate(endDate)),
                                     Null)>>)}
      [] f = "availability" ->
            {<<>>,
             <<[id |-> "a1", date |-> WithTime(formatDate(startDate)),
                status |-> "AVAILABLE"]>>}
      [] f = "blockedDays" ->
            {Null, <<{}>>, <<{getDay(startDate)}>>, <<{0, 6}>>}

\* A missing weekday list is the empty list.
BlockedDaysOrEmpty(data) == IF data = Null THEN {} ELSE data[1]

\* Mutant: the join goes on once every call has settled.
AllFetchesSettled(fs) == \A f \in FetchNames : fs[f].state # "pending"

\* The join goes on once every call has succeeded.
AllFetchesOk(fs) == \A f \in FetchNames : fs[f].state = "ok"

AnyFetchFailed(fs) == \E f \in FetchNames : fs[f].state = "failed"

Settling == phase \in {"loading", "error"}

FetchSucceeds(f) ==
    /\ Settling
    /\ fetches[f].state = "pending"
    /\ \E data \in FetchResponses(f) :
          fetches' = [fetches EXCEPT ![f] = Fetched(data)]
    /\ UNCHANGED <<phase, startDate, endDate, allBookings, allEvents,
                   availabilityArray, blockedWeekdays, expandedBlockedDates,
                   filteredBookings, eventBookings, deduplicatedBookings,
                   allCalendarBookings, availabilities, blockedDates,
                   calendarDays>>
    /\ UNCHANGED <<notificationVars, pageVars>>

FetchFails(f) ==
    /\ Settling
    /\ fetches[f].state = "pending"
    /\ fetches' = [fetches EXCEPT ![f] = Failed]
    /\ UNCHANGED <<phase, startDate, endDate, allBookings, allEvents,
                   availabilityArray, blockedWeekdays, expandedBlockedDates,
                   filteredBookings, eventBookings, deduplicatedBookings,
                   allCalendarBookings, availabilities, blockedDates,
                   calendarDays>>
    /\ UNCHANGED <<notificationVars, pageVars>>

\* The first failure fails the whole load.
FailLoad ==
    /\ phase = "loading"
    /\ AnyFetchFailed(fetches)
    /\ phase' = "error"
    /\ UNCHANGED <<fetches, startDate, endDate, allBookings, allEvents,
                   availabilityArray, blockedWeekdays, expandedBlockedDates,
                   filteredBookings, eventBookings, deduplicatedBookings,
                   allCalendarBookings, availabilities, blockedDates,
                   calendarDays>>
    /\ UNCHANGED <<notificationVars, pageVars>>

\* The four results are taken over together.
JoinFetches ==
    /\ phase = "loading"
    /\ AllFetchesOk(fetches)
    /\ allBookings' = fetches["bookings"].data
    /\ allEvents' = fetches["events"].data
    /\ availabilityArray' = fetches["availability"].data
    /\ blockedWeekdays' = BlockedDaysOrEmpty(fetches["blockedDays"].data)
    /\ phase' = "fetched"
    /\ UNCHANGED <<fetches, startDate, endDate, expandedBlockedDates,
                   filteredBookings, eventBookings, deduplicatedBookings,
                   allCalendarBookings, availabilities, blockedDates,
                   calendarDays>>
    /\ UNCHANGED <<notificationVars, pageVars>>

NextFetch ==
    \/ \E f \in FetchNames : FetchSucceeds(f)
    \/ \E f \in FetchNames : FetchFails(f)
    \/ FailLoad
    \/ JoinFetches
    \/ ProcessData
    \/ BuildCalendar

\* A page load: every call pending, nothing taken over yet.
InitFetch ==
    /\ phase = "loading"
    /\ fetches = [f \in FetchNames |-> Pending]
    /\ startDate \in RangeStarts
    /\ endDate \in startDate..(startDate + FetchRangeDays - 1)
    /\ allBookings = <<>>
    /\ allEvents = <<>>
    /\ availabilityArray = <<>>
    /\ blockedWeekdays = {}
    /\ blockedDates = {}
    /\ availabilities = <<>>
    /\ expandedBlockedDates = <<>>
    /\ filteredBookings = <<>>
    /\ eventBookings = <<>>
    /\ deduplicatedBookings = <<>>
    /\ allCalendarBookings = <<>>
    /\ calendarDays = <<>>
    /\ NotificationsIdle
    /\ PagesIdle

SpecFetch == InitFetch /\ [][NextFetch]_vars

(***************************************************************************)
(* sendNotification: a database notification and an FCM push per user.    *)
(***************************************************************************)

MaxTargets == 3

Users == {"u1", "u2", "u3"}

\* What the user table holds for a user id: no row, a row without a token,
\* or a row with a token.
NoUser == [absent |-> TRUE]

TokenOf(u) == <<"token", u>>

UserRows(u) == {NoUser, [fcmToken |-> Null], [fcmToken |-> TokenOf(u)]}

\* prisma.user.findUnique({ where: { id }, select: { fcmToken: true } })
FindUnique(id) == IF fcmToken[id] = NoUser THEN Null ELSE fcmToken[id]

\* user?.fcmToken
HasToken(u) == u # Null /\ u.fcmToken # Null

\* prisma.notification.create for a notification of one user.
NewNotification(id) ==
    [id |-> nextId, userId |-> id, isBroadcast |-> FALSE, broadcastId |-> Null,
     targetRole |-> Null, isRead |-> FALSE]

\* payload.userId: one user id, [one |-> id], or an array of them,
\* [many |-> ids].
UserIdValues ==
    {[one |-> u] : u \in Users}
    \cup {[many |-> ids] : ids \in BoundedSeq(Users, MaxTargets)}

\* Array.isArray(userId) ? userId : [userId]
UserIdsOf(userId) ==
    IF "many" \in DOMAIN userId THEN userId.many ELSE <<userId.one>>

\* The loop goes to its next user, or leaves for the return statement.
NextIteration(results) ==
    IF Len(results) < Len(sendUserIds) THEN "create" ELSE "return"

\* Mutant: the FCM error is thrown on.
OnFcmErrorRethrow(continue) == "thrown"

\* catch (fcmError): logged, not thrown; the iteration goes on.
OnFcmError(continue) == continue

calendarIdle ==
    /\ phase = "idle"
    /\ fetches = [f \in FetchNames |-> [state |-> "pending", data |-> Null]]
    /\ startDate = 0
    /\ endDate = 0
    /\ allBookings = <<>>
    /\ allEvents = <<>>
    /\ availabilityArray = <<>>
    /\ blockedWeekdays = {}
    /\ blockedDates = {}
    /\ availabilities = <<>>
    /\ expandedBlockedDates = <<>>
    /\ filteredBookings = <<>>
    /\ eventBookings = <<>>
    /\ deduplicatedBookings = <<>>
    /\ allCalendarBookings = <<>>
    /\ calendarDays = <<>>

\* sendNotification(payload) is called.
StartSend(userId) ==
    /\ sendPc = "idle"
    /\ sendUserIds' = UserIdsOf(userId)
    /\ sendResults' = <<>>
    /\ sendPc' = IF UserIdsOf(userId) = <<>> THEN "return" ELSE "create"
    /\ UNCHANGED <<notifications, nextId, fcmToken, fcmLog, dbNotification,
                   user, sendOutcome, activityLogs, response>>
    /\ UNCHANGED <<calendarVars, pageVars>>

\* 1. Create database notification
CreateNotification ==
    /\ sendPc = "create"
    /\ LET created == NewNotification(sendUserIds[Len(sendResults) + 1])
       IN  /\ notifications' = Append(notifications, created)
           /\ dbNotification' = created
    /\ nextId' = nextId + 1
    /\ sendPc' = "findUser"
    /\ UNCHANGED <<fcmToken, fcmLog, sendUserIds, sendResults, user,
                   sendOutcome, activityLogs, response>>
    /\ UNCHANGED <<calendarVars, pageVars>>

\* A database call rejects: the outer catch logs and throws the error on.
DatabaseFails ==
    /\ sendPc \in {"create", "findUser"}
    /\ sendPc' = "thrown"
    /\ sendOutcome' = [kind |-> "thrown", error |-> "database"]
    /\ UNCHANGED <<notifications, nextId, fcmToken, fcmLog, sendUserIds,
                   sendResults, dbNotification, user, activityLogs, response>>
    /\ UNCHANGED <<calendarVars, pageVars>>

\* 2. Fetch user's FCM token; without one the push is skipped and the
\* notification goes to the results.
FindUser ==
    /\ sendPc = "findUser"
    /\ LET found == FindUnique(dbNotification.userId)
           results == Append(sendResults, dbNotification)
       IN  /\ user' = found
           /\ IF HasToken(found)
              THEN /\ sendPc' = "push"
                   /\ UNCHANGED sendResults
              ELSE /\ sendResults' = results
                   /\ sendPc' = NextIteration(results)
    /\ UNCHANGED <<notifications, nextId, fcmToken, fcmLog, sendUserIds,
                   dbNotification, sendOutcome, activityLogs, response>>
    /\ UNCHANGED <<calendarVars, pageVars>>

\* 3. admin.messaging().send(...) resolves.
PushSucceeds ==
    /\ sendPc = "push"
    /\ fcmLog' = Append(fcmLog, [token |-> user.fcmToken,
                                 notificationId |-> dbNotification.id,
                                 userId |-> dbNotification.userId,
                                 delivered |-> TRUE])
    /\ LET results == Append(sendResults, dbNotification)
       IN  /\ sendResults' = results
           /\ sendPc' = NextIteration(results)
    /\ UNCHANGED <<notifications, nextId, fcmToken, sendUserIds,
                   dbNotification, user, sendOutcome, activityLogs, response>>
    /\ UNCHANGED <<calendarVars, pageVars>>

\* 3. admin.messaging().send(...) rejects.
PushFails ==
    /\ sendPc = "push"
    /\ fcmLog' = Append(fcmLog, [token |-> user.fcmToken,
                                 notificationId |-> dbNotification.id,
                                 userId |-> dbNotification.userId,
                                 delivered |-> FALSE])
    /\ LET results == Append(sendResults, dbNotification)
           next == OnFcmError(NextIteration(results))
       IN  IF next = "thrown"
           THEN /\ sendPc' = "thrown"
                /\ sendOutcome' = [kind |-> "thrown", error |-> "fcm"]
                /\ UNCHANGED sendResults
           ELSE /\ sendPc' = next
                /\ sendResults' = results
                /\ UNCHANGED sendOutcome
    /\ UNCHANGED <<notifications, nextId, fcmToken, sendUserIds,
                   dbNotification, user, activityLogs, response>>
    /\ UNCHANGED <<calendarVars, pageVars>>

\* return results.length === 1 ? results[0] : results
Return ==
    /\ sendPc = "return"
    /\ sendOutcome' = [kind |-> "returned",
                       value |-> IF Len(sendResults) = 1
                                 THEN [one |-> sendResults[1]]
                                 ELSE [many |-> sendResults]]
    /\ sendPc' = "done"
    /\ UNCHANGED <<notifications, nextId, fcmToken, fcmLog, sendUserIds,
                   sendResults, dbNotification, user, activityLogs, response>>
    /\ UNCHANGED <<calendarVars, pageVars>>

NextSend ==
    \/ \E userId \in UserIdValues : StartSend(userId)
    \/ CreateNotification
    \/ DatabaseFails
    \/ FindUser
    \/ PushSucceeds
    \/ PushFails
    \/ Return

\* Before a call: any user table over the three user ids, an empty
\* notification table or one that holds an earlier notification of another
\* user.
InitSend ==
    /\ calendarIdle
    /\ PagesIdle
    /\ fcmToken \in {t \in [Users -> UNION {UserRows(u) : u \in Users}] :
                        \A u \in Users : t[u] \in UserRows(u)}
    /\ \E before \in 0..1 :
          /\ nextId = before + 1
          /\ notifications = [i \in 1..before |->
                                 [NewNotification("u0") EXCEPT !.id = i]]
    /\ fcmLog = <<>>
    /\ sendPc = "idle"
    /\ sendUserIds = <<>>
    /\ sendResults = <<>>
    /\ dbNotification = Null
    /\ user = Null
    /\ sendOutcome = Null
    /\ activityLogs = <<>>
    /\ response = Null

SpecSend == InitSend /\ [][NextSend]_vars

(***************************************************************************)
(* Admin routes: POST /notifications/send and DELETE /notifications/:id.   *)
(***************************************************************************)

MaxRequests == 4

Roles == {"TRAINER", "CLIENT"}

\* The role column of the user table.
RoleOf(u) == IF u = "u3" THEN "CLIENT" ELSE "TRAINER"

\* prisma.user.findMany({ select: { id: true } }), in table order.
ExistingUsers ==
    SelectSeq(<<"u1", "u2", "u3">>, LAMBDA u : fcmToken[u] # NoUser)

\* prisma.user.findMany({ where: { role }, select: { id: true } })
UsersWithRole(role) == SelectSeq(ExistingUsers, LAMBDA u : RoleOf(u) = role)

\* `bc_${Date.now()}_${random}`: a string no earlier request produced.
NewBroadcastId == <<"bc", nextId>>

\* The notifications of one broadcast, one per user.
BroadcastRows(userIds, targetRole) ==
    [i \in 1..Len(userIds) |->
        [id |-> nextId + (i - 1), userId |-> userIds[i], isBroadcast |-> TRUE,
         broadcastId |-> NewBroadcastId, targetRole |-> targetRole,
         isRead |-> FALSE]]

\* The pushes sent to the users of a list that have a token.
PushesTo(userIds) ==
    LET withToken == SelectSeq(userIds, LAMBDA u : HasToken(FindUnique(u)))
    IN  [i \in 1..Len(withToken) |->
            [token |-> TokenOf(withToken[i]), notificationId |-> Null,
             userId |-> withToken[i], delivered |-> TRUE]]

ActivityLog(actionType, entityId, description) ==
    [actionType |-> actionType, entityId |-> entityId,
     description |-> description]

MoreRequests == Len(activityLogs) < MaxRequests

\* POST /notifications/send with userId.
SendToUser(userId) ==
    /\ MoreRequests
    /\ notifications' = Append(notifications, NewNotification(userId))
    /\ nextId' = nextId + 1
    /\ fcmLog' = fcmLog \o PushesTo(<<userId>>)
    /\ activityLogs' = Append(activityLogs,
                              ActivityLog("CREATE", nextId, <<"user", userId>>))
    /\ response' = [route |-> "send", status |-> 200, count |-> 1]
    /\ UNCHANGED <<fcmToken, sendPc, sendUserIds, sendResults, dbNotification,
                   user, sendOutcome>>
    /\ UNCHANGED <<calendarVars, pageVars>>

\* POST /notifications/send with userRole.
SendToRole(userRole) ==
    /\ MoreRequests
    /\ LET users == UsersWithRole(userRole)
       IN  /\ notifications' = notifications \o BroadcastRows(users, userRole)
           /\ nextId' = nextId + Len(users)
           /\ fcmLog' = fcmLog \o PushesTo(users)
           /\ activityLogs' =
                 Append(activityLogs,
                        ActivityLog("CREATE", Null, <<"role", NewBroadcastId>>))
           /\ response' = [route |-> "send", status |-> 200,
                           count |-> Len(users)]
    /\ UNCHANGED <<fcmToken, sendPc, sendUserIds, sendResults, dbNotification,
                   user, sendOutcome>>
    /\ UNCHANGED <<calendarVars, pageVars>>

\* POST /notifications/send with neither: global notification.
SendGlobal ==
    /\ MoreRequests
    /\ LET users == ExistingUsers
       IN  /\ notifications' = notifications \o BroadcastRows(users, "ALL")
           /\ nextId' = nextId + Len(users)
           /\ fcmLog' = fcmLog \o PushesTo(users)
           /\ activityLogs' =
                 Append(activityLogs,
                        ActivityLog("CREATE", Null, <<"global", NewBroadcastId>>))
           /\ response' = [route |-> "send", status |-> 200,
                           count |-> Len(users)]
    /\ UNCHANGED <<fcmToken, sendPc, sendUserIds, sendResults, dbNotification,
                   user, sendOutcome>>
    /\ UNCHANGED <<calendarVars, pageVars>>

\* prisma.notification.findUnique({ where: { id } }): <<row>>, or <<>>.
FindNotification(id) == SelectSeq(notifications, LAMBDA n : n.id = id)

\* Mutant: only the notification itself is deleted.
DeletedByOne(notification, n) == n.id = notification.id

\* The rows the handler deletes when it has found the notification: those
\* of its broadcast, or the notification itself.
DeletedBy(notification, n) ==
    IF notification.isBroadcast /\ notification.broadcastId # Null
    THEN n.broadcastId = notification.broadcastId
    ELSE n.id = notification.id

\* DELETE /notifications/:id
DeleteNotification(id) ==
    /\ LET found == FindNotification(id)
       IN  IF found = <<>>
           THEN /\ response' = [route |-> "delete", status |-> 404, count |-> 0]
                /\ UNCHANGED <<notifications, activityLogs>>
           ELSE /\ MoreRequests
                /\ notifications' =
                      SelectSeq(notifications,
                                LAMBDA n : ~DeletedBy(found[1], n))
                /\ activityLogs' =
                      Append(activityLogs,
                             ActivityLog("DELETE", id,
                                         IF found[1].isBroadcast
                                         THEN <<"group", found[1].broadcastId>>
                                         ELSE <<"single", Null>>))
                /\ response' = [route |-> "delete", status |-> 200, count |-> 0]
    /\ UNCHANGED <<nextId, fcmToken, fcmLog, sendPc, sendUserIds, sendResults,
                   dbNotification, user, sendOutcome>>
    /\ UNCHANGED <<calendarVars, pageVars>>

\* The ids a request can name: those generated so far and one never used.
RequestIds == 1..nextId

NextAdmin ==
    \/ \E userId \in Users : SendToUser(userId)
    \/ \E userRole \in Roles : SendToRole(userRole)
    \/ SendGlobal
    \/ \E id \in RequestIds : DeleteNotification(id)

\* An empty notification table; two trainers, the second with or without a
\* token, and a client that exists or not.
InitAdmin ==
    /\ calendarIdle
    /\ PagesIdle
    /\ fcmToken \in {t \in [Users -> UNION {UserRows(u) : u \in Users}] :
                        /\ t["u1"] = [fcmToken |-> TokenOf("u1")]
                        /\ t["u2"] \in UserRows("u2") \ {NoUser}
                        /\ t["u3"] \in {NoUser, [fcmToken |-> TokenOf("u3")]}}
    /\ notifications = <<>>
    /\ nextId = 1
    /\ fcmLog = <<>>
    /\ sendPc = "idle"
    /\ sendUserIds = <<>>
    /\ sendResults = <<>>
    /\ dbNotification = Null
    /\ user = Null
    /\ sendOutcome = Null
    /\ activityLogs = <<>>
    /\ response = Null

SpecAdmin == InitAdmin /\ [][NextAdmin]_vars

(***************************************************************************)
(* Admin routes: GET /notifications and PUT /notifications/:id/read.       *)
(***************************************************************************)

MaxListRows == 2
MaxPage == 2
MaxLimit == 2

\* The query of a GET /notifications: isRead and userId are Null when the
\* parameter is absent; page and limit as parseInt reads them.
ListQueries ==
    [isRead : {Null, <<"true">>, <<"false">>}, userId : {Null, <<"u1">>},
     page : 1..MaxPage, limit : 0..MaxLimit]

\* The where clause built from the query.
MatchesWhere(n, query) ==
    /\ query.isRead # Null => n.isRead = (query.isRead = <<"true">>)
    /\ query.userId # Null => n.userId = query.userId[1]

\* findMany({ where, orderBy: { createdAt: 'desc' } })
RECURSIVE Reversed(_)
Reversed(rows) ==
    IF rows = <<>> THEN <<>> ELSE Append(Reversed(Tail(rows)), Head(rows))

FindManyNotifications(query) ==
    Reversed(SelectSeq(notifications, LAMBDA n : MatchesWhere(n, query)))

\* Mutant: every notification is pushed.
GroupedFromAll(rows, seenBroadcasts, grouped) == rows

\* Grouping logic: the first notification of every broadcast and every
\* other notification, in the order of the list.
RECURSIVE GroupedFrom(_, _, _)
GroupedFrom(rows, seenBroadcasts, grouped) ==
    IF rows = <<>>
    THEN grouped
    ELSE LET notif == Head(rows)
         IN  IF notif.isBroadcast /\ notif.broadcastId # Null
             THEN IF notif.broadcastId \notin seenBroadcasts
                  THEN GroupedFrom(Tail(rows),
                                   seenBroadcasts \cup {notif.broadcastId},
                                   Append(grouped, notif))
                  ELSE GroupedFrom(Tail(rows), seenBroadcasts, grouped)
             ELSE GroupedFrom(Tail(rows), seenBroadcasts,
                              Append(grouped, notif))

\* Array.prototype.slice(start, end) for 0 <= start.
Slice(seq, start, end) ==
    LET last == IF end < Len(seq) THEN end ELSE Len(seq)
    IN  IF start >= last THEN <<>> ELSE SubSeq(seq, start + 1, last)

\* Math.ceil(total / limit): a number, Infinity or NaN.
CeilOfQuotient(total, limit) ==
    IF limit = 0
    THEN IF total = 0 THEN [kind |-> "NaN", n |-> 0]
                      ELSE [kind |-> "Infinity", n |-> 0]
    ELSE [kind |-> "number", n |-> (total + limit - 1) \div limit]

\* The body of the answer to GET /notifications.
ListResponse(query) ==
    LET grouped == GroupedFrom(FindManyNotifications(query), {}, <<>>)
        skip == (query.page - 1) * query.limit
    IN  [route |-> "list", status |-> 200, query |-> query,
         notifications |-> Slice(grouped, skip, skip + query.limit),
         total |-> Len(grouped),
         page |-> query.page,
         totalPages |-> CeilOfQuotient(Len(grouped), query.limit)]

\* GET /notifications
GetNotifications ==
    /\ listQuery # Null
    /\ response' = ListResponse(listQuery)
    /\ UNCHANGED <<notifications, nextId, fcmToken, fcmLog, sendPc, sendUserIds,
                   sendResults, dbNotification, user, sendOutcome, activityLogs>>
    /\ UNCHANGED <<calendarVars, pageVars>>

\* PUT /notifications/:id/read: update throws for an id that names nothing.
MarkRead(id) ==
    /\ IF FindNotification(id) = <<>>
       THEN /\ response' = [route |-> "read", status |-> 500]
            /\ UNCHANGED notifications
       ELSE /\ notifications' =
                  [i \in 1..Len(notifications) |->
                      IF notifications[i].id = id
                      THEN [notifications[i] EXCEPT !.isRead = TRUE]
                      ELSE notifications[i]]
            /\ response' = [route |-> "read", status |-> 200]
    /\ UNCHANGED <<nextId, fcmToken, fcmLog, sendPc, sendUserIds, sendResults,
                   dbNotification, user, sendOutcome, activityLogs>>
    /\ UNCHANGED <<calendarVars, pageVars>>

\* A notification is sent while the table is small.
SendWhileSmall ==
    /\ Len(notifications) < MaxListRows
    /\ \/ \E userId \in Users : SendToUser(userId)
       \/ \E userRole \in Roles : SendToRole(userRole)
       \/ SendGlobal

NextList ==
    \/ SendWhileSmall
    \/ \E id \in RequestIds : MarkRead(id)
    \/ GetNotifications

\* An empty notification table, two trainers and a client, and the query
\* of the admin's list.
InitList ==
    /\ calendarIdle
    /\ FrontEndIdle
    /\ contactSubmissions = <<>>
    /\ messageThreads = <<>>
    /\ trainerMessages = <<>>
    /\ listQuery \in ListQueries
    /\ fcmToken = [u \in Users |->
                      IF u = "u2" THEN [fcmToken |-> Null]
                                  ELSE [fcmToken |-> TokenOf(u)]]
    /\ notifications = <<>>
    /\ nextId = 1
    /\ fcmLog = <<>>
    /\ sendPc = "idle"
    /\ sendUserIds = <<>>
    /\ sendResults = <<>>
    /\ dbNotification = Null
    /\ user = Null
    /\ sendOutcome = Null
    /\ activityLogs = <<>>
    /\ response = Null

SpecList == InitList /\ [][NextList]_vars

(***************************************************************************)
(* Admin routes: GET /trainer-messages.                                    *)
(***************************************************************************)

MaxThreads == 2
MaxUnread == 2

Trainers == {"t1", "t2"}

\* The query of a GET /trainer-messages: isRead is Null when absent.
MessageQueries ==
    [isRead : {Null, <<"true">>, <<"false">>}, page : 1..MaxPage,
     limit : 0..MaxLimit]

\* obj[key] = value on a Record<string, number>.
Put(map, key, value) ==
    [k \in DOMAIN map \cup {key} |-> IF k = key THEN value ELSE map[k]]

\* The where clause of the paginated threads.
ThreadWhere(t, query) ==
    /\ query.isRead = <<"true">> => t.unreadCount = 0
    /\ query.isRead = <<"false">> => t.unreadCount > 0

\* The where clause of the legacy messages.
LegacyWhere(m, query) ==
    /\ query.isRead = <<"true">> => m.isRead
    /\ query.isRead = <<"false">> => ~m.isRead

\* Mutant: the unread threads are taken from the filtered threads.
AllUnreadThreadsOfQuery(query) ==
    SelectSeq(messageThreads,
              LAMBDA t : t.unreadCount > 0 /\ ThreadWhere(t, query))

\* messageThread.findMany({ where: { unreadCount: { gt: 0 } } })
AllUnreadThreads(query) ==
    SelectSeq(messageThreads, LAMBDA t : t.unreadCount > 0)

\* trainerMessage.findMany({ where: { isRead: false }, distinct:
\* ['trainerId'] }): the first unread message of every trainer.
AllUnreadLegacyMessages ==
    LET unread == SelectSeq(trainerMessages, LAMBDA m : ~m.isRead)
        first == {i \in 1..Len(unread) :
                     \A k \in 1..(i - 1) : unread[k].trainerId # unread[i].trainerId}
    IN  [i \in 1..Cardinality(first) |->
            unread[CHOOSE k \in first :
                      Cardinality({x \in first : x < k}) = i - 1]]

\* Populate with threads first.
RECURSIVE WithThreads(_, _)
WithThreads(map, threads) ==
    IF threads = <<>>
    THEN map
    ELSE WithThreads(Put(map, Head(threads).trainerId,
                         Head(threads).unreadCount),
                     Tail(threads))

\* Fill gaps with legacy (if not already set).
RECURSIVE WithLegacy(_, _)
WithLegacy(map, messages) ==
    IF messages = <<>>
    THEN map
    ELSE LET id == Head(messages).trainerId
         IN  WithLegacy(IF id \notin DOMAIN map \/ map[id] = 0
                        THEN Put(map, id, 1) ELSE map,
                        Tail(messages))

\* Object.values(map).reduce((sum, count) => sum + count, 0)
RECURSIVE SumOfValues(_, _)
SumOfValues(map, keys) ==
    IF keys = {}
    THEN 0
    ELSE LET k == CHOOSE x \in keys : TRUE
         IN  map[k] + SumOfValues(map, keys \ {k})

\* The body of the answer to GET /trainer-messages.
MessagesResponse(query) ==
    LET unreadStatusMap ==
            WithLegacy(WithThreads(<<>>, AllUnreadThreads(query)),
                       AllUnreadLegacyMessages)
        skip == (query.page - 1) * query.limit
        threads == SelectSeq(messageThreads, LAMBDA t : ThreadWhere(t, query))
        legacy == SelectSeq(trainerMessages, LAMBDA m : LegacyWhere(m, query))
    IN  [route |-> "trainer-messages", status |-> 200, query |-> query,
         threads |-> Slice(threads, skip, skip + query.limit),
         legacyMessages |-> Slice(legacy, skip, skip + query.limit),
         total |-> Len(threads),
         page |-> query.page,
         totalPages |-> CeilOfQuotient(Len(threads), query.limit),
         unreadCount |-> SumOfValues(unreadStatusMap, DOMAIN unreadStatusMap),
         unreadStatus |-> unreadStatusMap]

\* GET /trainer-messages
GetTrainerMessages ==
    /\ listQuery # Null
    /\ response' = MessagesResponse(listQuery)
    /\ UNCHANGED <<notifications, nextId, fcmToken, fcmLog, sendPc, sendUserIds,
                   sendResults, dbNotification, user, sendOutcome, activityLogs>>
    /\ UNCHANGED <<calendarVars, pageVars>>

NextMessages == GetTrainerMessages

\* The legacy message tables: a read and an unread message of each trainer,
\* or some of them.
LegacyTables ==
    {SelectSeq(<<[trainerId |-> "t1", isRead |-> TRUE],
                 [trainerId |-> "t2", isRead |-> FALSE],
                 [trainerId |-> "t1", isRead |-> FALSE],
                 [trainerId |-> "t2", isRead |-> TRUE]>>,
               LAMBDA m : m \in kept) :
        kept \in SUBSET [trainerId : Trainers, isRead : BOOLEAN]}

\* Any thread table and legacy message table of two trainers, and the
\* query of the admin's message list.
InitMessages ==
    /\ calendarIdle
    /\ FrontEndIdle
    /\ NotificationsIdle
    /\ contactSubmissions = <<>>
    /\ listQuery \in MessageQueries
    /\ messageThreads \in
           BoundedSeq([trainerId : Trainers, unreadCount : 0..MaxUnread],
                      MaxThreads)
    /\ trainerMessages \in LegacyTables

SpecMessages == InitMessages /\ [][NextMessages]_vars

(***************************************************************************)
(* Admin routes: contact submissions.                                      *)
(***************************************************************************)

MaxSubmissions == 2

\* A contact submission as the contact form stored it.  The table has no
\* 'resolved' column.
Submitted(id) == [id |-> id, message |-> <<"message", id>>]

\* prisma.contactSubmission.findUnique({ where: { id } }): <<row>>, or <<>>.
FindSubmission(id) == SelectSeq(contactSubmissions, LAMBDA c : c.id = id)

\* GET /contact-submissions
GetContactSubmissions(page, limit) ==
    /\ LET ordered == Reversed(contactSubmissions)
           skip == (page - 1) * limit
       IN  response' = [route |-> "contact-submissions", status |-> 200,
                        submissions |-> Slice(ordered, skip, skip + limit),
                        total |-> Len(contactSubmissions),
                        page |-> page,
                        totalPages |-> CeilOfQuotient(Len(contactSubmissions),
                                                      limit)]
    /\ UNCHANGED <<notifications, nextId, fcmToken, fcmLog, sendPc, sendUserIds,
                   sendResults, dbNotification, user, sendOutcome, activityLogs>>
    /\ UNCHANGED <<calendarVars, pageVars>>

\* PUT /contact-submissions/:id/resolve
ResolveContactSubmission(id) ==
    /\ LET found == FindSubmission(id)
       IN  IF found = <<>>
           THEN /\ response' = [route |-> "resolve", status |-> 404]
                /\ UNCHANGED activityLogs
           ELSE /\ MoreRequests
                /\ activityLogs' =
                      Append(activityLogs,
                             ActivityLog("UPDATE", found[1].id, <<"resolved">>))
                /\ response' = [route |-> "resolve", status |-> 200]
    /\ UNCHANGED <<notifications, nextId, fcmToken, fcmLog, sendPc, sendUserIds,
                   sendResults, dbNotification, user, sendOutcome>>
    /\ UNCHANGED <<calendarVars, pageVars>>

\* The ids a request can name: those of the table and one more.
SubmissionIds == 1..(MaxSubmissions + 1)

NextContact ==
    \/ \E id \in SubmissionIds : ResolveContactSubmission(id)
    \/ \E page \in 1..MaxPage, limit \in 0..MaxLimit :
          GetContactSubmissions(page, limit)

\* A table of up to MaxSubmissions contact submissions.
InitContact ==
    /\ calendarIdle
    /\ FrontEndIdle
    /\ NotificationsIdle
    /\ \E n \in 0..MaxSubmissions :
          contactSubmissions = [i \in 1..n |-> Submitted(i)]
    /\ listQuery = Null
    /\ messageThreads = <<>>
    /\ trainerMessages = <<>>

SpecContact == InitContact /\ [][NextContact]_vars

(***************************************************************************)
(* Admin front end: EventsPage.                                            *)
(*   A point in time is <<day, hour>>; setHours(0, 0, 0, 0) moves it to    *)
(*   hour 0 of its day.                                                    *)
(***************************************************************************)

\* Events in one getEvents answer; events in the list of the page.
MaxFetchedEvents == 2

MaxPageEvents == 1

\* new Date(): noon of day 10.
Now == <<10, 12>>

setHoursZero(time) == <<time[1], 0>>

\* time1 < time2
Before(time1, time2) ==
    \/ time1[1] < time2[1]
    \/ time1[1] = time2[1] /\ time1[2] < time2[2]

\* The endDate / eventDate an event can have: yesterday or earlier today.
EventTimes ==
    {[endDate |-> Null, eventDate |-> <<Now[1] - 1, 12>>],
     [endDate |-> Null, eventDate |-> <<Now[1], 6>>],
     [endDate |-> <<Now[1] - 1, 12>>, eventDate |-> <<Now[1] - 1, 6>>],
     [endDate |-> <<Now[1], 6>>, eventDate |-> <<Now[1] - 1, 12>>]}

\* The event lists of length n: event i has id i.
EventListsOf(n, times) ==
    {[i \in 1..n |-> [id |-> i, status |-> f[i][1],
                      endDate |-> f[i][2].endDate,
                      eventDate |-> f[i][2].eventDate]] :
        f \in [1..n -> EventStatuses \X times]}

EventLists(times, max) == UNION {EventListsOf(n, times) : n \in 0..max}

\* Mutant: the time of day is kept.
IsPastKeepingHours(event, today) ==
    LET eventEndDate == IF event.endDate # Null THEN event.endDate
                                               ELSE event.eventDate
    IN  Before(eventEndDate, Now)

\* The filter of pastActiveEvents, for an ACTIVE event.
IsPast(event, today) ==
    LET eventEndDate == IF event.endDate # Null THEN event.endDate
                                               ELSE event.eventDate
    IN  Before(setHoursZero(eventEndDate), today)

PastActiveEvents(fetched) ==
    SelectSeq(fetched, LAMBDA event :
        event.status = "ACTIVE" /\ IsPast(event, setHoursZero(Now)))

\* fetchedEvents.map(...): the past active events COMPLETED.
MarkCompleted(fetched, pastActiveEvents) ==
    [i \in 1..Len(fetched) |->
        IF \E j \in 1..Len(pastActiveEvents) :
               pastActiveEvents[j].id = fetched[i].id
        THEN [fetched[i] EXCEPT !.status = "COMPLETED"]
        ELSE fetched[i]]

authAndGrid ==
    <<authUser, authLoading, checksStarted, authChecks, handledLogout,
      authCalls, gridDays, gridCells>>

adminTables == <<contactSubmissions, listQuery, messageThreads, trainerMessages>>

otherThanEventsPage == <<calendarVars, notificationVars, adminTables, authAndGrid>>

\* fetchEvents up to its first await.
FetchEvents ==
    /\ fetchPc = "idle"
    /\ fetchPc' = "getEvents"
    /\ UNCHANGED <<pageEvents, loading, selectedEvent, updatingStatus, toast,
                   remoteEvents, fetchedEvents, statusCall, deleteCall>>
    /\ UNCHANGED otherThanEventsPage

\* apiClient.getEvents rejects: the outer catch and finally.
GetEventsFails ==
    /\ fetchPc = "getEvents"
    /\ toast' = <<"error", "fetching events">>
    /\ loading' = FALSE
    /\ fetchPc' = "idle"
    /\ UNCHANGED <<pageEvents, selectedEvent, updatingStatus, remoteEvents,
                   fetchedEvents, statusCall, deleteCall>>
    /\ UNCHANGED otherThanEventsPage

\* apiClient.getEvents resolves: up to the await of autoCompletePastEvents,
\* or to the end when there is no past active event.
GetEventsReturns ==
    /\ fetchPc = "getEvents"
    /\ IF PastActiveEvents(remoteEvents) # <<>>
       THEN /\ fetchPc' = "autoComplete"
            /\ fetchedEvents' = remoteEvents
            /\ UNCHANGED <<pageEvents, loading>>
       ELSE /\ pageEvents' = remoteEvents
            /\ loading' = FALSE
            /\ fetchPc' = "idle"
            /\ UNCHANGED fetchedEvents
    /\ UNCHANGED <<selectedEvent, updatingStatus, toast, remoteEvents,
                   statusCall, deleteCall>>
    /\ UNCHANGED otherThanEventsPage

\* apiClient.autoCompletePastEvents resolves.
AutoCompleteSucceeds ==
    /\ fetchPc = "autoComplete"
    /\ LET pastActiveEvents == PastActiveEvents(fetchedEvents)
       IN  /\ pageEvents' = MarkCompleted(fetchedEvents, pastActiveEvents)
           /\ toast' = <<"success", "Auto-completed", Len(pastActiveEvents)>>
    /\ loading' = FALSE
    /\ fetchPc' = "idle"
    /\ fetchedEvents' = <<>>
    /\ UNCHANGED <<selectedEvent, updatingStatus, remoteEvents, statusCall,
                   deleteCall>>
    /\ UNCHANGED otherThanEventsPage

\* apiClient.autoCompletePastEvents rejects: the inner catch.
AutoCompleteFails ==
    /\ fetchPc = "autoComplete"
    /\ pageEvents' = fetchedEvents
    /\ loading' = FALSE
    /\ fetchPc' = "idle"
    /\ fetchedEvents' = <<>>
    /\ UNCHANGED <<selectedEvent, updatingStatus, toast, remoteEvents,
                   statusCall, deleteCall>>
    /\ UNCHANGED otherThanEventsPage

NextEventsFetch ==
    \/ FetchEvents
    \/ GetEventsFails
    \/ GetEventsReturns
    \/ AutoCompleteSucceeds
    \/ AutoCompleteFails

\* The page as constructed; the backend holds any list of events.
InitEventsFetch ==
    /\ calendarIdle
    /\ NotificationsIdle
    /\ contactSubmissions = <<>>
    /\ listQuery = Null
    /\ messageThreads = <<>>
    /\ trainerMessages = <<>>
    /\ AuthIdle
    /\ GridIdle
    /\ pageEvents = <<>>
    /\ loading = TRUE
    /\ selectedEvent = Null
    /\ updatingStatus = <<>>
    /\ toast = Null
    /\ remoteEvents \in EventLists(EventTimes, MaxFetchedEvents)
    /\ fetchPc = "idle"
    /\ fetchedEvents = <<>>
    /\ statusCall = Null
    /\ deleteCall = Null

SpecEventsFetch == InitEventsFetch /\ [][NextEventsFetch]_vars

\* onClick of an event of the list: setSelectedEvent(event).
SelectEvent(i) ==
    /\ selectedEvent = Null
    /\ i \in 1..Len(pageEvents)
    /\ selectedEvent' = pageEvents[i]
    /\ UNCHANGED <<pageEvents, loading, updatingStatus, toast, remoteEvents,
                   fetchPc, fetchedEvents, statusCall, deleteCall>>
    /\ UNCHANGED otherThanEventsPage

\* onBack
Back ==
    /\ selectedEvent # Null
    /\ selectedEvent' = Null
    /\ UNCHANGED <<pageEvents, loading, updatingStatus, toast, remoteEvents,
                   fetchPc, fetchedEvents, statusCall, deleteCall>>
    /\ UNCHANGED otherThanEventsPage

\* Object.values(updatingStatus).some(Boolean)
isUpdating == \E id \in DOMAIN updatingStatus : updatingStatus[id]

\* The Select of the details view changes: onStatusChange, handleStatusChange
\* up to its await.
ChangeStatus(newStatus) ==
    /\ selectedEvent # Null
    /\ ~isUpdating
    /\ statusCall = Null
    /\ newStatus # selectedEvent.status
    /\ updatingStatus' = Put(updatingStatus, selectedEvent.id, TRUE)
    /\ statusCall' = [eventId |-> selectedEvent.id, newStatus |-> newStatus]
    /\ UNCHANGED <<pageEvents, loading, selectedEvent, toast, remoteEvents,
                   fetchPc, fetchedEvents, deleteCall>>
    /\ UNCHANGED otherThanEventsPage

\* onStatusChange after 'await handleStatusChange(id, status)', which
\* resolves whether the update succeeded or not.
SelectedAfterStatusChange(newStatus) ==
    IF selectedEvent = Null THEN Null
    ELSE [selectedEvent EXCEPT !.status = newStatus]

\* apiClient.updateEventStatus resolves.
StatusSucceeds ==
    /\ statusCall # Null
    /\ pageEvents' =
          [i \in 1..Len(pageEvents) |->
              IF pageEvents[i].id = statusCall.eventId
              THEN [pageEvents[i] EXCEPT !.status = statusCall.newStatus]
              ELSE pageEvents[i]]
    /\ toast' = <<"success", "status updated">>
    /\ updatingStatus' = Put(updatingStatus, statusCall.eventId, FALSE)
    /\ selectedEvent' = SelectedAfterStatusChange(statusCall.newStatus)
    /\ statusCall' = Null
    /\ UNCHANGED <<loading, remoteEvents, fetchPc, fetchedEvents, deleteCall>>
    /\ UNCHANGED otherThanEventsPage

\* apiClient.updateEventStatus rejects.
StatusFails ==
    /\ statusCall # Null
    /\ toast' = <<"error", "update event status">>
    /\ updatingStatus' = Put(updatingStatus, statusCall.eventId, FALSE)
    /\ selectedEvent' = SelectedAfterStatusChange(statusCall.newStatus)
    /\ statusCall' = Null
    /\ UNCHANGED <<pageEvents, loading, remoteEvents, fetchPc, fetchedEvents,
                   deleteCall>>
    /\ UNCHANGED otherThanEventsPage

\* Mutant: any event may be deleted.
MayDeleteAny(event) == TRUE

\* The status check of handleDeleteEvent.
MayDelete(event) == event.status = "CANCELLED"

\* Delete Event of the details view: onDelete, handleDeleteEvent up to its
\* await, or to the end of onDelete when it returns early.  confirmed is
\* the answer to window.confirm.
ClickDelete(confirmed) ==
    /\ selectedEvent # Null
    /\ deleteCall = Null
    /\ IF ~MayDelete(selectedEvent)
       THEN /\ toast' = <<"error", "cancel before deleting">>
            /\ selectedEvent' = Null
            /\ UNCHANGED deleteCall
       ELSE IF ~confirmed
       THEN /\ selectedEvent' = Null
            /\ UNCHANGED <<toast, deleteCall>>
       ELSE /\ deleteCall' = selectedEvent
            /\ UNCHANGED <<toast, selectedEvent>>
    /\ UNCHANGED <<pageEvents, loading, updatingStatus, remoteEvents, fetchPc,
                   fetchedEvents, statusCall>>
    /\ UNCHANGED otherThanEventsPage

\* apiClient.deleteEvent resolves.
DeleteSucceeds ==
    /\ deleteCall # Null
    /\ pageEvents' = SelectSeq(pageEvents, LAMBDA e : e.id # deleteCall.id)
    /\ toast' = <<"success", "deleted">>
    /\ selectedEvent' = Null
    /\ deleteCall' = Null
    /\ UNCHANGED <<loading, updatingStatus, remoteEvents, fetchPc,
                   fetchedEvents, statusCall>>
    /\ UNCHANGED otherThanEventsPage

\* apiClient.deleteEvent rejects.
DeleteFails ==
    /\ deleteCall # Null
    /\ toast' = <<"error", "delete event">>
    /\ selectedEvent' = Null
    /\ deleteCall' = Null
    /\ UNCHANGED <<pageEvents, loading, updatingStatus, remoteEvents, fetchPc,
                   fetchedEvents, statusCall>>
    /\ UNCHANGED otherThanEventsPage

NextEventsPage ==
    \/ \E i \in 1..MaxPageEvents : SelectEvent(i)
    \/ Back
    \/ \E newStatus \in EventStatuses : ChangeStatus(newStatus)
    \/ StatusSucceeds
    \/ StatusFails
    \/ \E confirmed \in BOOLEAN : ClickDelete(confirmed)
    \/ DeleteSucceeds
    \/ DeleteFails

\* The page after its events were fetched.
InitEventsPage ==
    /\ calendarIdle
    /\ NotificationsIdle
    /\ contactSubmissions = <<>>
    /\ listQuery = Null
    /\ messageThreads = <<>>
    /\ trainerMessages = <<>>
    /\ AuthIdle
    /\ GridIdle
    /\ remoteEvents \in
          EventLists({[endDate |-> Null, eventDate |-> <<Now[1], 6>>]},
                     MaxPageEvents)
    /\ pageEvents = remoteEvents
    /\ loading = FALSE
    /\ selectedEvent = Null
    /\ updatingStatus = <<>>
    /\ toast = Null
    /\ fetchPc = "idle"
    /\ fetchedEvents = <<>>
    /\ statusCall = Null
    /\ deleteCall = Null

SpecEventsPage == InitEventsPage /\ [][NextEventsPage]_vars

(***************************************************************************)
(* Admin front end: useAuth.                                               *)
(*   Each checkAuth call is numbered in the order it started.              *)
(*   handledLogout remembers how many had started when auth:logout was     *)
(*   handled; it is Null before any logout and again once a sign-in, a     *)
(*   registration or a check started after the logout has set the user.    *)
(***************************************************************************)

MaxChecks == 2

AdminUser == [id |-> "a1", role |-> "ADMIN"]

outsideAuth ==
    <<calendarVars, notificationVars, adminTables,
      pageEvents, loading, selectedEvent, updatingStatus, toast, remoteEvents,
      fetchPc, fetchedEvents, statusCall, deleteCall, gridDays, gridCells>>

\* checkAuth, from the mount effect or from auth:login-success, up to its
\* await; token is what apiClient.getToken() returns.
CheckAuth(token) ==
    /\ checksStarted < MaxChecks
    /\ checksStarted' = checksStarted + 1
    /\ IF token # Null
       THEN /\ authChecks' = authChecks \cup {checksStarted + 1}
            /\ UNCHANGED <<authUser, authLoading>>
       ELSE /\ authUser' = Null
            /\ authLoading' = FALSE
            /\ UNCHANGED authChecks
    /\ UNCHANGED <<handledLogout, authCalls>>
    /\ UNCHANGED outsideAuth

\* Does the logout in force predate check id?
StartedAfterLogout(id) == handledLogout # Null /\ id > handledLogout[1]

\* apiClient.getCurrentUser resolves for check id with response.user = u.
GetCurrentUserReturns(id, u) ==
    /\ id \in authChecks
    /\ authChecks' = authChecks \ {id}
    /\ authUser' = u
    /\ authLoading' = FALSE
    /\ handledLogout' = IF u # Null /\ StartedAfterLogout(id)
                        THEN Null ELSE handledLogout
    /\ UNCHANGED <<checksStarted, authCalls>>
    /\ UNCHANGED outsideAuth

\* apiClient.getCurrentUser rejects for check id.
GetCurrentUserFails(id) ==
    /\ id \in authChecks
    /\ authChecks' = authChecks \ {id}
    /\ authUser' = Null
    /\ authLoading' = FALSE
    /\ UNCHANGED <<checksStarted, handledLogout, authCalls>>
    /\ UNCHANGED outsideAuth

\* The auth:logout listener.
handleLogout ==
    /\ authUser' = Null
    /\ handledLogout' = <<checksStarted>>
    /\ UNCHANGED <<authLoading, checksStarted, authChecks, authCalls>>
    /\ UNCHANGED outsideAuth

AuthCallNames == {"signIn", "signUp", "signOut"}

\* signIn, signUp or signOut up to its await.
StartAuthCall(name) ==
    /\ name \notin authCalls
    /\ authCalls' = authCalls \cup {name}
    /\ UNCHANGED <<authUser, authLoading, checksStarted, authChecks,
                   handledLogout>>
    /\ UNCHANGED outsideAuth

\* apiClient.login / register / logout resolves.
AuthCallSucceeds(name) ==
    /\ name \in authCalls
    /\ authCalls' = authCalls \ {name}
    /\ authUser' = IF name = "signOut" THEN Null ELSE AdminUser
    /\ handledLogout' = IF name = "signOut" THEN handledLogout ELSE Null
    /\ UNCHANGED <<authLoading, checksStarted, authChecks>>
    /\ UNCHANGED outsideAuth

\* apiClient.login / register / logout rejects.
AuthCallFails(name) ==
    /\ name \in authCalls
    /\ authCalls' = authCalls \ {name}
    /\ UNCHANGED <<authUser, authLoading, checksStarted, authChecks,
                   handledLogout>>
    /\ UNCHANGED outsideAuth

NextAuth ==
    \/ \E token \in {Null, <<"token">>} : CheckAuth(token)
    \/ \E id \in 1..MaxChecks, u \in {Null, AdminUser} :
          GetCurrentUserReturns(id, u)
    \/ \E id \in 1..MaxChecks : GetCurrentUserFails(id)
    \/ handleLogout
    \/ \E name \in AuthCallNames :
          StartAuthCall(name) \/ AuthCallSucceeds(name) \/ AuthCallFails(name)

InitAuth ==
    /\ calendarIdle
    /\ NotificationsIdle
    /\ contactSubmissions = <<>>
    /\ listQuery = Null
    /\ messageThreads = <<>>
    /\ trainerMessages = <<>>
    /\ EventsPageIdle
    /\ GridIdle
    /\ AuthIdle

SpecAuth == InitAuth /\ [][NextAuth]_vars

(***************************************************************************)
(* Trainer front end: CalendarGrid.                                        *)
(*   The grid has seven columns; a cell at position p (from 1) of the      *)
(*   second grid lands in column (p - 1) % 7.                              *)
(***************************************************************************)

MaxGridDays == 4

EmptyCell == [kind |-> "empty"]

DayCell(day) == [kind |-> "day", day |-> day]

\* The cells of the second grid: firstDay empty cells, then one
\* CalendarDayCell per element of days.
CalendarGrid(days) ==
    LET firstDay == IF Len(days) > 0 THEN getDay(days[1].date) ELSE 0
    IN  [i \in 1..firstDay |-> EmptyCell] \o
        [i \in 1..Len(days) |-> DayCell(days[i])]

\* The dates of a set, in ascending order, as CalendarDay objects.
DaysOf(dates) ==
    [i \in 1..Cardinality(dates) |->
        LET date == CHOOSE d \in dates :
                        Cardinality({e \in dates : e < d}) = i - 1
        IN  [date |-> date, dateString |-> formatDate(date)]]

outsideGrid ==
    <<calendarVars, notificationVars, adminTables,
      pageEvents, loading, selectedEvent, updatingStatus, toast, remoteEvents,
      fetchPc, fetchedEvents, statusCall, deleteCall,
      authUser, authLoading, checksStarted, authChecks, handledLogout,
      authCalls>>

\* CalendarGrid renders its days prop.
RenderGrid ==
    /\ gridCells = Null
    /\ gridCells' = <<CalendarGrid(gridDays)>>
    /\ UNCHANGED gridDays
    /\ UNCHANGED outsideGrid

NextGrid == RenderGrid

\* The days prop: the days of a run of MaxGridDays dates that begins on any
\* weekday, all of them or a filtered subset (filteredDays).
InitGrid ==
    /\ calendarIdle
    /\ NotificationsIdle
    /\ contactSubmissions = <<>>
    /\ listQuery = Null
    /\ messageThreads = <<>>
    /\ trainerMessages = <<>>
    /\ EventsPageIdle
    /\ AuthIdle
    /\ \E first \in 0..6 :
       \E dates \in SUBSET (first..(first + MaxGridDays - 1)) :
          gridDays = DaysOf(dates)
    /\ gridCells = Null

SpecGrid == InitGrid /\ [][NextGrid]_vars

(***************************************************************************)
(* Calendar arithmetic used to state the properties, independent of the    *)
(* Date model above.                                                       *)
(***************************************************************************)
IsLeapYear(y) == (y % 4 = 0 /\ y % 100 # 0) \/ y % 400 = 0

DaysInMonth(y, m) ==
    IF m = 2 THEN (IF IsLeapYear(y) THEN 29 ELSE 28)
    ELSE IF m \in {4, 6, 9, 11} THEN 30 ELSE 31

ValidDateStr(str) ==
    /\ Len(str) = 3
    /\ str[2] \in 1..12
    /\ str[3] \in 1..DaysInMonth(str[1], str[2])

\* Days before the first of month m in year y.
RECURSIVE DaysBeforeMonth(_, _)
DaysBeforeMonth(y, m) ==
    IF m = 1 THEN 0 ELSE DaysBeforeMonth(y, m - 1) + DaysInMonth(y, m - 1)

\* Position of a date on the time line: days since 0001-01-01.
Ordinal(str) ==
    LET p == str[1] - 1
    IN  p * 365 + p \div 4 - p \div 100 + p \div 400
          + DaysBeforeMonth(str[1], str[2]) + str[3]

\* Weekday of a civil date, 0 = Sunday .. 6 = Saturday (0001-01-01 was a Monday).
WeekdayOf(str) == Ordinal(str) % 7

SeqRange(seq) == {seq[i] : i \in 1..Len(seq)}

(***************************************************************************)
(* C10: the blocked-weekday expansion holds exactly the dates of           *)
(* [start, end] whose weekday is in the set, each once, in ascending       *)
(* order, also across month and year boundaries; for March 2024 and        *)
(* {0, 6} these are the 10 Saturdays and Sundays of the month.             *)
(***************************************************************************)
C10_ExpandExact ==
    phase # "fetched" =>
        LET out == expandedBlockedDates
            lo  == Ordinal(formatDate(startDate))
            hi  == Ordinal(formatDate(endDate))
        IN  /\ \A i \in 1..Len(out) :
                   /\ ValidDateStr(out[i])
                   /\ Ordinal(out[i]) \in lo..hi
                   /\ WeekdayOf(out[i]) \in blockedWeekdays
            /\ \A i, j \in 1..Len(out) :
                   i < j => Ordinal(out[i]) < Ordinal(out[j])
            /\ Len(out) = Cardinality({n \in lo..hi : n % 7 \in blockedWeekdays})
            /\ (/\ startDate = DateOf(<<2024, 3, 1>>)
                /\ endDate = DateOf(<<2024, 3, 31>>)
                /\ blockedWeekdays = {0, 6})
               => out = << <<2024, 3, 2>>, <<2024, 3, 3>>, <<2024, 3, 9>>,
                           <<2024, 3, 10>>, <<2024, 3, 16>>, <<2024, 3, 17>>,
                           <<2024, 3, 23>>, <<2024, 3, 24>>, <<2024, 3, 30>>,
                           <<2024, 3, 31>> >>

C10_Witness ==
    /\ phase = "processed"
    /\ startDate = DateOf(<<2023, 12, 28>>)
    /\ endDate = DateOf(<<2024, 1, 7>>)
    /\ blockedWeekdays = {0, 6}
    /\ expandedBlockedDates = << <<2023, 12, 30>>, <<2023, 12, 31>>,
                                 <<2024, 1, 6>>, <<2024, 1, 7>> >>

(***************************************************************************)
(* Day status resolution, stated over the fetched data.                    *)
(***************************************************************************)
DayStatuses == {"blocked", "booked", "tentative", "available", "not_available"}

Built == phase = "built"

Days == 1..Len(calendarDays)

\* The date is explicitly blocked or its weekday is a blocked weekday.
DayIsBlocked(day) ==
    \/ WeekdayOf(day.dateString) \in blockedWeekdays
    \/ day.dateString \in blockedDates

\* The statuses of the bookings listed for the day.
DayBookingStatuses(day) == {b.status : b \in SeqRange(day.bookings)}

\* An availability record with this status exists for the day.
DayHasRecord(day, status) ==
    \E i \in 1..Len(availabilities) :
        /\ availabilities[i].date = day.dateString
        /\ availabilities[i].status = status

\* The resolver's three inputs for a day.
ResolverInputs(day) ==
    <<day.isBlocked, [i \in 1..Len(day.bookings) |-> day.bookings[i].status],
      IF day.availability = Null THEN Null ELSE <<day.availability.status>> >>

(***************************************************************************)
(* C1: a blocked date (explicitly, or by its weekday) resolves to          *)
(* 'blocked', whatever bookings overlap it and whatever availability       *)
(* record it has.                                                          *)
(***************************************************************************)
C1_BlockedWins ==
    Built => \A i \in Days :
        DayIsBlocked(calendarDays[i]) => calendarDays[i].status = "blocked"

C1_Witness ==
    /\ Built
    /\ \E i \in Days :
          /\ WeekdayOf(calendarDays[i].dateString) \in blockedWeekdays
          /\ "booked" \in DayBookingStatuses(calendarDays[i])
          /\ DayHasRecord(calendarDays[i], "available")
          /\ calendarDays[i].status = "blocked"

(***************************************************************************)
(* C2: every day gets one status out of blocked, booked, tentative,        *)
(* available, not_available, and days with the same resolver inputs        *)
(* (blocked flag, booking statuses, availability status) get the same one. *)
(***************************************************************************)
C2_OneOfFive ==
    Built =>
        /\ \A i \in Days : calendarDays[i].status \in DayStatuses
        /\ \A i, j \in Days :
               ResolverInputs(calendarDays[i]) = ResolverInputs(calendarDays[j])
                   => calendarDays[i].status = calendarDays[j].status

C2_Witness ==
    /\ Built
    /\ Len(calendarDays) = 2
    /\ ResolverInputs(calendarDays[1]) = ResolverInputs(calendarDays[2])
    /\ DayBookingStatuses(calendarDays[1]) = {"approved"}
    /\ calendarDays[1].status = "tentative"
    /\ calendarDays[2].status = "tentative"

(***************************************************************************)
(* C5: a date that is not blocked and has an overlapping booking with      *)
(* status booked or confirmed resolves to 'booked', whatever the other     *)
(* bookings and the availability record are.                               *)
(***************************************************************************)
C5_BookedTier ==
    Built => \A i \in Days :
        (/\ ~DayIsBlocked(calendarDays[i])
         /\ DayBookingStatuses(calendarDays[i]) \cap {"booked", "confirmed"} # {})
        => calendarDays[i].status = "booked"

C5_Witness ==
    /\ Built
    /\ \E i \in Days :
          /\ ~DayIsBlocked(calendarDays[i])
          /\ DayBookingStatuses(calendarDays[i]) = {"confirmed", "approved"}
          /\ DayHasRecord(calendarDays[i], "available")
          /\ calendarDays[i].status = "booked"

(***************************************************************************)
(* C6: a date that is not blocked and has no booked or confirmed booking   *)
(* resolves to 'tentative' exactly when a booking with status approved or  *)
(* tentative overlaps it; the availability record does not matter.         *)
(***************************************************************************)
C6_TentativeTier ==
    Built => \A i \in Days :
        (/\ ~DayIsBlocked(calendarDays[i])
         /\ DayBookingStatuses(calendarDays[i]) \cap {"booked", "confirmed"} = {})
        => (calendarDays[i].status = "tentative"
              <=> DayBookingStatuses(calendarDays[i])
                      \cap {"approved", "tentative"} # {})

C6_Witness ==
    /\ Built
    /\ \E i \in Days :
          /\ ~DayIsBlocked(calendarDays[i])
          /\ DayBookingStatuses(calendarDays[i]) = {"approved", "pending"}
          /\ DayHasRecord(calendarDays[i], "available")
          /\ calendarDays[i].status = "tentative"

(***************************************************************************)
(* C7: a date that is not blocked and whose bookings all have statuses     *)
(* other than booked, confirmed, approved, tentative resolves to           *)
(* 'available' when it has an availability record with status             *)
(* 'available', and to 'not_available' otherwise: with no record, and      *)
(* with a record whose status is not_available, booked or tentative.       *)
(***************************************************************************)
C7_AvailabilityTier ==
    Built => \A i \in Days :
        (/\ ~DayIsBlocked(calendarDays[i])
         /\ DayBookingStatuses(calendarDays[i])
                \cap {"booked", "confirmed", "approved", "tentative"} = {})
        => calendarDays[i].status =
              (IF DayHasRecord(calendarDays[i], "available")
               THEN "available" ELSE "not_available")

C7_Witness ==
    /\ Built
    /\ \E i \in Days :
          /\ ~DayIsBlocked(calendarDays[i])
          /\ DayBookingStatuses(calendarDays[i]) = {"pending", "canceled"}
          /\ DayHasRecord(calendarDays[i], "booked")
          /\ calendarDays[i].status = "not_available"

(***************************************************************************)
(* Deduplication and per-date matching, stated over the fetched rows.      *)
(***************************************************************************)
Processed == phase \in {"processed", "built"}

\* The calendar date a raw date or datetime string names.
DatePart(str) == <<str[1], str[2], str[3]>>

RawBookings == 1..Len(allBookings)

RawEvents == 1..Len(allEvents)

\* The raw booking lies in the displayed range, so it is an input of the
\* deduplication.
InDisplayedRange(b) ==
    Ordinal(DatePart(b.requested_date))
        \in Ordinal(formatDate(startDate))..Ordinal(formatDate(endDate))

IsConfirmed(b) == b.status \in {"confirmed", "Confirmed", "CONFIRMED"}

\* An event has the booking's course and starts on the booking's date.
HasMatchingEvent(b) ==
    \E k \in RawEvents :
        /\ allEvents[k].courseId = b.course_id
        /\ DatePart(allEvents[k].eventDate) = DatePart(b.requested_date)

\* Places of the row with this id in the combined output.
PlacesOf(id) == {n \in 1..Len(allCalendarBookings) : allCalendarBookings[n].id = id}

(***************************************************************************)
(* C3: a confirmed raw booking (in any letter case) whose course and date  *)
(* are those of an event is absent from the deduplicated output; a         *)
(* confirmed raw booking without such an event is in it exactly once.      *)
(***************************************************************************)
C3_ConfirmedDedup ==
    Processed => \A i \in RawBookings :
        LET b == allBookings[i]
        IN  (InDisplayedRange(b) /\ IsConfirmed(b)) =>
                /\ HasMatchingEvent(b) =>
                       /\ PlacesOf(b.id) = {}
                       /\ \A n \in 1..Len(deduplicatedBookings) :
                              deduplicatedBookings[n].id # b.id
                /\ ~HasMatchingEvent(b) => Cardinality(PlacesOf(b.id)) = 1

C3_Witness ==
    /\ Processed
    /\ Len(allBookings) = 2
    /\ allBookings[1].status = "CONFIRMED"
    /\ HasMatchingEvent(allBookings[1])
    /\ PlacesOf(allBookings[1].id) = {}
    /\ allBookings[2].status = "confirmed"
    /\ ~HasMatchingEvent(allBookings[2])
    /\ allEvents # <<>>
    /\ Cardinality(PlacesOf(allBookings[2].id)) = 1

(***************************************************************************)
(* C9: a raw booking whose status is not confirmed is in the output, also  *)
(* when an event has its course and date, and every event-derived booking  *)
(* is in the output.                                                       *)
(***************************************************************************)
C9_OthersKept ==
    Processed =>
        /\ \A i \in RawBookings :
               (InDisplayedRange(allBookings[i]) /\ ~IsConfirmed(allBookings[i]))
                   => Cardinality(PlacesOf(allBookings[i].id)) = 1
        /\ \A k \in RawEvents :
               \E n \in PlacesOf(allEvents[k].id) :
                   /\ allCalendarBookings[n].status = "booked"
                   /\ allCalendarBookings[n].course_id = allEvents[k].courseId
                   /\ allCalendarBookings[n].requested_date
                          = DatePart(allEvents[k].eventDate)

C9_Witness ==
    /\ Processed
    /\ \E i \in RawBookings :
          /\ allBookings[i].status = "approved"
          /\ HasMatchingEvent(allBookings[i])
          /\ Cardinality(PlacesOf(allBookings[i].id)) = 1
    /\ Len(allEvents) = 2
    /\ \A k \in RawEvents : PlacesOf(allEvents[k].id) # {}

(***************************************************************************)
(* C8: a booking with an end date is listed for a date T exactly when      *)
(* start <= T <= end, a booking without one exactly when start = T; a date *)
(* that no booking matches gets the empty list.                            *)
(***************************************************************************)
\* The booking covers the date, on the time line.
Covers(b, str) ==
    IF b.end_date # Null
    THEN /\ Ordinal(DatePart(b.requested_date)) <= Ordinal(str)
         /\ Ordinal(str) <= Ordinal(DatePart(b.end_date))
    ELSE Ordinal(DatePart(b.requested_date)) = Ordinal(str)

CoveringIds(str) ==
    {allCalendarBookings[n].id : n \in {m \in 1..Len(allCalendarBookings) :
                                            Covers(allCalendarBookings[m], str)}}

C8_MatchInclusive ==
    Built => \A i \in Days :
        LET day == calendarDays[i]
        IN  /\ {b.id : b \in SeqRange(day.bookings)} = CoveringIds(day.dateString)
            /\ Len(day.bookings) = Cardinality(CoveringIds(day.dateString))
            /\ CoveringIds(day.dateString) = {} => day.bookings = <<>>

\* A booking from 2023-12-31 to 2024-01-01 beside a single-day booking: on
\* the four days the lists are empty, both, the first, empty.
C8_Witness ==
    /\ Built
    /\ Len(allCalendarBookings) = 2
    /\ allCalendarBookings[1].requested_date = <<2023, 12, 31>>
    /\ allCalendarBookings[1].end_date = <<2024, 1, 1, "T">>
    /\ allCalendarBookings[2].requested_date = <<2023, 12, 31>>
    /\ allCalendarBookings[2].end_date = Null
    /\ calendarDays[1].bookings = <<>>
    /\ Len(calendarDays[2].bookings) = 2
    /\ calendarDays[3].bookings = <<allCalendarBookings[1]>>
    /\ calendarDays[4].bookings = <<>>

(***************************************************************************)
(* C4: no day lists both a raw booking with status confirmed and an        *)
(* event-derived booking of the same course covering that date, for every  *)
(* combination of single-day and multi-day bookings and events.            *)
(***************************************************************************)
IsRawRow(b) == \E i \in RawBookings : allBookings[i].id = b.id

IsEventRow(b) == \E k \in RawEvents : allEvents[k].id = b.id

FetchOk(f) == fetches[f].state = "ok"

\* C11: the pipeline runs and a calendar exists only when all four fetches
\* have succeeded; once any fetch has failed, in whatever order the calls
\* complete, the load is not taken over, nothing is processed and no
\* calendar day is built.
C11_AllOrNothing ==
    /\ phase \in {"fetched", "processed", "built"} =>
          \A f \in FetchNames : FetchOk(f)
    /\ calendarDays # <<>> => \A f \in FetchNames : FetchOk(f)
    /\ AnyFetchFailed(fetches) =>
          /\ phase \in {"loading", "error"}
          /\ calendarDays = <<>>
          /\ allCalendarBookings = <<>>
          /\ allBookings = <<>> /\ allEvents = <<>> /\ availabilityArray = <<>>

\* The load has failed on one call while the three others delivered data.
C11_Witness ==
    /\ phase = "error"
    /\ fetches["availability"].state = "failed"
    /\ \A f \in FetchNames \ {"availability"} :
          FetchOk(f) /\ fetches[f].data # <<>>
    /\ calendarDays = <<>>

(***************************************************************************)
(* Rows whose date normalizes to null.                                     *)
(***************************************************************************)

HasNullDate(raw) == raw = Null \/ raw = Unparseable

DatedBookings ==
    SelectSeq(allBookings, LAMBDA b : ~HasNullDate(b.requested_date))

DatedEvents == SelectSeq(allEvents, LAMBDA e : ~HasNullDate(e.eventDate))

NullDatedIds ==
    {allBookings[i].id : i \in {k \in 1..Len(allBookings) :
                                   HasNullDate(allBookings[k].requested_date)}}
    \cup {allEvents[i].id : i \in {k \in 1..Len(allEvents) :
                                      HasNullDate(allEvents[k].eventDate)}}

\* The calendar of the rows that do have a date.
CalendarOfDated ==
    LET filtered == FilterBookings(DatedBookings, formatDate(startDate),
                                   formatDate(endDate))
        converted == ConvertEvents(DatedEvents)
    IN  buildCalendarDays(getCalendarGrid(startDate, endDate),
                          Combine(Deduplicate(filtered, converted), converted),
                          NormalizeAvailability(availabilityArray),
                          blockedWeekdays, blockedDates)

\* C12: a booking or event whose date normalizes to null is dropped: the
\* build does not throw, the row is in no day's booking list, and every day
\* has the status it has without the row.
C12_NullDateDropped ==
    /\ phase # "error"
    /\ Built =>
          /\ \A i \in Days : \A k \in 1..Len(calendarDays[i].bookings) :
                calendarDays[i].bookings[k].id \notin NullDatedIds
          /\ \A i \in Days :
                calendarDays[i].status = CalendarOfDated[i].status

(***************************************************************************)
(* Events on the calendar.                                                 *)
(***************************************************************************)

\* The event covers the date, on the time line.
EventCovers(e, str) ==
    IF e.endDate # Null
    THEN /\ Ordinal(DatePart(e.eventDate)) <= Ordinal(str)
         /\ Ordinal(str) <= Ordinal(DatePart(e.endDate))
    ELSE Ordinal(DatePart(e.eventDate)) = Ordinal(str)

\* C13: every fetched event is converted to a booking with status 'booked',
\* whatever the event's own status and dates, and every date that is not
\* blocked and that an event covers has the status 'booked'.
C13_EventsAlwaysBooked ==
    /\ Processed =>
          /\ Len(eventBookings) = Len(allEvents)
          /\ \A n \in RawEvents :
                /\ eventBookings[n].id = allEvents[n].id
                /\ eventBookings[n].status = "booked"
    /\ Built => \A i \in Days : \A n \in RawEvents :
          /\ EventCovers(allEvents[n], calendarDays[i].dateString)
          /\ ~DayIsBlocked(calendarDays[i])
          => calendarDays[i].status = "booked"

\* A cancelled event that started before the range covers the last day of
\* the range, beside a day blocked by its weekday.
C13_Witness ==
    /\ Built
    /\ Len(allEvents) = 1
    /\ allEvents[1].status = "CANCELLED"
    /\ Ordinal(DatePart(allEvents[1].eventDate)) < Ordinal(formatDate(startDate))
    /\ allEvents[1].endDate # Null
    /\ calendarDays[3].status = "booked"
    /\ calendarDays[2].status = "blocked"
    /\ calendarDays[1].status = "booked"
    /\ calendarDays[1].availability # Null

RawIndex(b) == CHOOSE i \in RawBookings : allBookings[i].id = b.id

\* C15: the combined list is the kept raw bookings followed by all the
\* event bookings: the raw bookings are in the order in which they were
\* fetched, the events are all there in the order in which they were
\* fetched, and no raw booking comes after an event booking.
C15_RawThenEvents ==
    Processed =>
        LET all == allCalendarBookings
            kept == Len(all) - Len(allEvents)
        IN  /\ kept >= 0
            /\ \A p \in 1..kept : IsRawRow(all[p]) /\ ~IsEventRow(all[p])
            /\ \A p, q \in 1..kept :
                  p < q => RawIndex(all[p]) < RawIndex(all[q])
            /\ \A n \in RawEvents : all[kept + n].id = allEvents[n].id
            /\ \A p, q \in 1..Len(all) :
                  IsEventRow(all[p]) /\ p < q => IsEventRow(all[q])

\* The first of two bookings is suppressed by the second of two events; the
\* other booking stands before both events.
C15_Witness ==
    /\ Processed
    /\ Len(allBookings) = 2
    /\ Len(allEvents) = 2
    /\ Len(allCalendarBookings) = 3
    /\ allCalendarBookings[1].id = allBookings[2].id
    /\ allCalendarBookings[2].id = allEvents[1].id
    /\ allCalendarBookings[3].id = allEvents[2].id
    /\ allEvents[1].courseId = "c2"

(***************************************************************************)
(* An empty or missing blocked-weekday list.                               *)
(***************************************************************************)

\* The blocked-days call returned no weekday: an empty list, or no list.
NoBlockedWeekdayFetched ==
    /\ FetchOk("blockedDays")
    /\ fetches["blockedDays"].data \in {Null, <<{}>>}

\* C17: when the blocked-weekday list is empty or missing, the expansion
\* yields no date for any range, no day is blocked by its weekday, and the
\* build does not fail on it.
C17_NoWeekdaysNoBlocks ==
    NoBlockedWeekdayFetched =>
        /\ phase = "error" => AnyFetchFailed(fetches)
        /\ Processed => expandedBlockedDates = <<>> /\ blockedWeekdays = {}
        /\ Built => \A i \in Days :
              /\ ~calendarDays[i].isBlocked
              /\ calendarDays[i].status # "blocked"

\* A full week built with no weekday list in the response.
C17_Witness ==
    /\ Built
    /\ FetchOk("blockedDays")
    /\ fetches["blockedDays"].data = Null
    /\ Len(calendarDays) = 7
    /\ expandedBlockedDates = <<>>
    /\ \A i \in Days : ~calendarDays[i].isBlocked

\* A full week built with an empty weekday list in the response.
C17_WitnessEmpty ==
    /\ Built
    /\ FetchOk("blockedDays")
    /\ fetches["blockedDays"].data = <<{}>>
    /\ Len(calendarDays) = 7

(***************************************************************************)
(* Letter case of the availability status.                                 *)
(***************************************************************************)

\* Spellings of 'available' in other letter cases.
AvailableSpellings == {"available", "AVAILABLE", "Available"}

\* The fetched availability record of the day, if any, has this status.
DayHasRawRecord(day, statuses) ==
    \E n \in 1..Len(availabilityArray) :
        /\ DatePart(availabilityArray[n].date) = day.dateString
        /\ availabilityArray[n].status \in statuses

\* C18: the status of every fetched availability record is normalized to
\* lower case ('AVAILABLE' and 'Available' become 'available'), and a date
\* with a record spelled that way, no block and no booking has the status
\* 'available'.
C18_CaseInsensitiveAvailable ==
    /\ Processed =>
          /\ Len(availabilities) = Len(availabilityArray)
          /\ \A n \in 1..Len(availabilityArray) :
                /\ availabilities[n].status \in AvailabilityStatuses
                /\ availabilityArray[n].status \in AvailableSpellings
                      <=> availabilities[n].status = "available"
                /\ availabilityArray[n].status \notin AvailableSpellings
                      => availabilities[n].status = availabilityArray[n].status
    /\ Built => \A i \in Days :
          /\ DayHasRawRecord(calendarDays[i], AvailableSpellings)
          /\ ~DayIsBlocked(calendarDays[i])
          /\ calendarDays[i].bookings = <<>>
          => calendarDays[i].status = "available"

\* An upper-case record on the second day, which has no booking and no
\* block, while the first day has a booking.
C18_Witness ==
    /\ Built
    /\ DayHasRawRecord(calendarDays[2], {"AVAILABLE"})
    /\ ~DayIsBlocked(calendarDays[2])
    /\ calendarDays[2].bookings = <<>>
    /\ calendarDays[2].status = "available"
    /\ calendarDays[1].bookings # <<>>

(***************************************************************************)
(* sendNotification.                                                       *)
(***************************************************************************)

\* The notifications the call has created, in creation order.
CreatedByCall == SelectSeq(notifications, LAMBDA n : n.userId \in Users)

\* C19: sendNotification creates the notifications in the order of the
\* user ids of the payload; every push that was attempted carries the id of
\* a notification already created for that user; the call throws only on a
\* database error, never on a failed push or a missing token; every
\* notification created stays in the table and is in the results; and the
\* call returns only when every user id has been processed, with all the
\* notifications created.
C19_NotificationBeforePush ==
    LET created == CreatedByCall
    IN  /\ Len(created) <= Len(sendUserIds)
        /\ \A j \in 1..Len(created) : created[j].userId = sendUserIds[j]
        /\ \A e \in 1..Len(fcmLog) : \E j \in 1..Len(created) :
              /\ created[j].id = fcmLog[e].notificationId
              /\ created[j].userId = fcmLog[e].userId
              /\ fcmLog[e].token = TokenOf(created[j].userId)
        /\ \A e, g \in 1..Len(fcmLog) :
              e < g => fcmLog[e].notificationId < fcmLog[g].notificationId
        /\ sendPc = "thrown" => sendOutcome.error = "database"
        /\ Len(created) - Len(sendResults) \in {0, 1}
        /\ \A j \in 1..Len(sendResults) : sendResults[j] = created[j]
        /\ sendPc = "done" =>
              /\ Len(sendResults) = Len(sendUserIds)
              /\ created = sendResults
              /\ sendOutcome.kind = "returned"
              /\ IF Len(sendUserIds) = 1
                 THEN sendOutcome.value = [one |-> created[1]]
                 ELSE sendOutcome.value = [many |-> created]

\* Three users: the push of the first failed, the second has no token, the
\* third got its push; the call returned the three notifications.
C19_Witness ==
    /\ sendPc = "done"
    /\ sendUserIds = <<"u1", "u2", "u3">>
    /\ Len(fcmLog) = 2
    /\ fcmLog[1].userId = "u1" /\ ~fcmLog[1].delivered
    /\ fcmLog[2].userId = "u3" /\ fcmLog[2].delivered
    /\ fcmToken["u2"] = [fcmToken |-> Null]
    /\ Len(sendResults) = 3
    /\ sendOutcome.kind = "returned"

(***************************************************************************)
(* DELETE /notifications/:id.                                              *)
(***************************************************************************)

Rows(table) == SeqRange(table)

\* What a handled DELETE of the id has done to the notification table.
DeleteOutcome(id) ==
    LET before == Rows(notifications)
        after == Rows(notifications')
        named == {n \in before : n.id = id}
    IN  IF named = {}
        THEN /\ response'.status = 404
             /\ notifications' = notifications
             /\ activityLogs' = activityLogs
        ELSE LET n == CHOOSE m \in named : TRUE
                 gone == IF n.isBroadcast /\ n.broadcastId # Null
                         THEN {m \in before : m.broadcastId = n.broadcastId}
                         ELSE {n}
             IN  /\ response'.status = 200
                 /\ after = before \ gone
                 /\ n \notin after
                 /\ n.isBroadcast =>
                       \A m \in after : m.broadcastId # n.broadcastId
                 /\ Len(notifications') = Len(notifications) - Cardinality(gone)

\* C20: DELETE /notifications/:id of a broadcast notification deletes every
\* notification with its broadcastId, so that none remains; of a
\* non-broadcast notification it deletes that notification only; all other
\* notifications stay as they are; and for an id that names no notification
\* it answers 404 and deletes nothing.
C20_DeleteGroupOrOne ==
    [][\A id \in RequestIds : DeleteNotification(id) => DeleteOutcome(id)]_vars

\* A broadcast group of two was deleted through its second notification,
\* while a notification to one user and another broadcast stay.
C20_Witness ==
    /\ response # Null
    /\ response.route = "delete"
    /\ response.status = 200
    /\ Len(activityLogs) = 4
    /\ activityLogs[4].actionType = "DELETE"
    /\ activityLogs[4].description[1] = "group"
    /\ activityLogs[4].entityId = 2
    /\ activityLogs[1].description[1] = "role"
    /\ \A n \in Rows(notifications) :
          n.broadcastId # activityLogs[4].description[2]
    /\ \E n \in Rows(notifications) : ~n.isBroadcast
    /\ \E n \in Rows(notifications) : n.isBroadcast

(***************************************************************************)
(* GET /notifications.                                                     *)
(***************************************************************************)

\* The notification belongs to a broadcast group.
InBroadcast(n) == n.isBroadcast /\ n.broadcastId # Null

\* The notifications the query selects.
Matching(query) == {n \in Rows(notifications) : MatchesWhere(n, query)}

\* One entry per broadcast, its most recent matching notification, and one
\* per other matching notification.
ExpectedEntries(query) ==
    {n \in Matching(query) :
        InBroadcast(n) =>
            \A m \in Matching(query) :
                m.broadcastId = n.broadcastId => m.id <= n.id}

\* The pages first..last of the query, one after the other.
RECURSIVE PagesFrom(_, _, _)
PagesFrom(query, first, last) ==
    IF first > last
    THEN <<>>
    ELSE ListResponse([query EXCEPT !.page = first]).notifications
         \o PagesFrom(query, first + 1, last)

\* The answer has one entry per expected entry, its total counts them, and
\* the pages 1..totalPages hold each of them once.
GroupedAndPaged(answer) ==
    LET expected == ExpectedEntries(answer.query)
    IN  /\ answer.total = Cardinality(expected)
        /\ answer.totalPages.kind = "number"
        /\ LET pages == PagesFrom(answer.query, 1, answer.totalPages.n)
           IN  /\ SeqRange(pages) = expected
               /\ Len(pages) = Cardinality(expected)

\* C21: GET /notifications answers with one entry per distinct broadcastId
\* of the matching notifications (the most recent one) and one per
\* non-broadcast notification; total is the number of these entries and the
\* pages 1..totalPages hold every entry exactly once.
C21_GroupedPages ==
    [][GetNotifications => GroupedAndPaged(response')]_vars

\* The same for a page size of at least one.
C21_GroupedPagesOfPositiveLimit ==
    [][GetNotifications /\ listQuery.limit >= 1 => GroupedAndPaged(response')]_vars

(***************************************************************************)
(* GET /trainer-messages.                                                  *)
(***************************************************************************)

UnreadThreadCounts(trainer) ==
    {t.unreadCount : t \in {x \in SeqRange(messageThreads) :
                               x.trainerId = trainer /\ x.unreadCount > 0}}

HasUnreadLegacy(trainer) ==
    \E m \in SeqRange(trainerMessages) : m.trainerId = trainer /\ ~m.isRead

\* The trainers with something unread.
UnreadTrainers ==
    {t \in Trainers : UnreadThreadCounts(t) # {} \/ HasUnreadLegacy(t)}

\* C22: whatever page, limit and isRead the request carries, unreadStatus
\* has an entry for exactly the trainers with an unread thread or an unread
\* legacy message: the unreadCount of an unread thread of the trainer, or 1
\* for a trainer with unread legacy messages only; and unreadCount is the
\* sum of the entries.
C22_UnreadIsGlobal ==
    (response # Null /\ response.route = "trainer-messages") =>
        /\ DOMAIN response.unreadStatus = UnreadTrainers
        /\ \A t \in UnreadTrainers :
              IF UnreadThreadCounts(t) # {}
              THEN response.unreadStatus[t] \in UnreadThreadCounts(t)
              ELSE response.unreadStatus[t] = 1
        /\ response.unreadCount =
              SumOfValues(response.unreadStatus, UnreadTrainers)

\* The list of read threads is asked for (second page, nothing on it) while
\* one trainer has an unread thread and the other only an unread legacy
\* message.
C22_Witness ==
    /\ response # Null
    /\ response.route = "trainer-messages"
    /\ response.query.isRead = <<"true">>
    /\ response.query.page = 2
    /\ response.threads = <<>>
    /\ UnreadThreadCounts("t1") = {2}
    /\ UnreadThreadCounts("t2") = {}
    /\ HasUnreadLegacy("t2")
    /\ response.unreadStatus["t1"] = 2
    /\ response.unreadStatus["t2"] = 1
    /\ response.unreadCount = 3

(***************************************************************************)
(* PUT /contact-submissions/:id/resolve.                                   *)
(***************************************************************************)

\* A read of the table shows the submission in another state than the one
\* it was submitted in.
ObservablyResolved(id) ==
    \E c \in SeqRange(contactSubmissions) : c.id = id /\ c # Submitted(id)

\* C23: a successful PUT /contact-submissions/:id/resolve leaves the stored
\* submission in a resolved state that a later read observes; for an id
\* that names no submission the answer is 404 and no activity log is
\* written.
C23_ResolveIsStored ==
    [][\A id \in SubmissionIds :
          ResolveContactSubmission(id) =>
              IF FindSubmission(id) # <<>>
              THEN response'.status = 200 /\ ObservablyResolved(id)'
              ELSE response'.status = 404 /\ activityLogs' = activityLogs]_vars

\* The part about an id that names no submission.
C23_UnknownIdIs404 ==
    [][\A id \in SubmissionIds :
          ResolveContactSubmission(id) /\ FindSubmission(id) = <<>> =>
              response'.status = 404 /\ activityLogs' = activityLogs]_vars

(***************************************************************************)
(* EventsPage.                                                             *)
(***************************************************************************)

EventIds(list) == {list[i].id : i \in 1..Len(list)}

\* C24: handleDeleteEvent calls the delete API only for an event of status
\* CANCELLED and after the user confirmed, and removes the event from the
\* local list only when that call succeeded; for any other status, a
\* declined confirmation or a failed call the list of events is unchanged.
C24_DeleteOnlyCancelledConfirmed ==
    [][/\ \A confirmed \in BOOLEAN :
             ClickDelete(confirmed) =>
                 /\ pageEvents' = pageEvents
                 /\ deleteCall' # Null <=>
                        selectedEvent.status = "CANCELLED" /\ confirmed
                 /\ deleteCall' # Null => deleteCall' = selectedEvent
       /\ DeleteFails => pageEvents' = pageEvents
       /\ DeleteSucceeds =>
             /\ deleteCall.status = "CANCELLED"
             /\ EventIds(pageEvents') = EventIds(pageEvents) \ {deleteCall.id}
       /\ EventIds(pageEvents') # EventIds(pageEvents) => DeleteSucceeds
      ]_vars

\* A cancelled event was deleted: it is gone from the list.
C24_Witness ==
    /\ toast = <<"success", "deleted">>
    /\ \E i \in 1..Len(remoteEvents) :
          /\ remoteEvents[i].id \notin EventIds(pageEvents)
          /\ Len(pageEvents) = Len(remoteEvents) - 1

\* The day an event ends: that of its endDate, or of its eventDate.
EndDay(event) ==
    IF event.endDate # Null THEN event.endDate[1] ELSE event.eventDate[1]

EndedBeforeToday(event) == event.status = "ACTIVE" /\ EndDay(event) < Now[1]

\* C25: fetchEvents sets the fetched ACTIVE events that ended before today
\* to COMPLETED in the local list only when the auto-complete call
\* succeeded; when it fails the fetched events are stored as fetched; in
\* both cases, and when the fetch itself fails, loading ends.
C25_AutoCompleteOnSuccess ==
    [][/\ AutoCompleteSucceeds =>
             /\ \E i \in 1..Len(fetchedEvents) :
                   EndedBeforeToday(fetchedEvents[i])
             /\ pageEvents' =
                   [i \in 1..Len(fetchedEvents) |->
                       IF EndedBeforeToday(fetchedEvents[i])
                       THEN [fetchedEvents[i] EXCEPT !.status = "COMPLETED"]
                       ELSE fetchedEvents[i]]
             /\ ~loading'
       /\ AutoCompleteFails => pageEvents' = fetchedEvents /\ ~loading'
       /\ GetEventsReturns =>
             IF \E i \in 1..Len(remoteEvents) :
                    EndedBeforeToday(remoteEvents[i])
             THEN fetchPc' = "autoComplete" /\ fetchedEvents' = remoteEvents
                  /\ pageEvents' = pageEvents
             ELSE pageEvents' = remoteEvents /\ ~loading'
       /\ GetEventsFails => pageEvents' = pageEvents /\ ~loading'
      ]_vars

\* Past events were auto-completed; the list also holds an ACTIVE event
\* that ends today and stays ACTIVE.
C25_Witness ==
    /\ ~loading
    /\ toast = <<"success", "Auto-completed", 1>>
    /\ \E i, j \in 1..Len(pageEvents) :
          /\ remoteEvents[i].status = "ACTIVE"
          /\ pageEvents[i].status = "COMPLETED"
          /\ pageEvents[j].status = "ACTIVE"
          /\ EndDay(pageEvents[j]) = Now[1]

\* The auto-complete call failed: a past ACTIVE event is stored as fetched.
C25_WitnessFailed ==
    /\ ~loading
    /\ fetchPc = "idle"
    /\ \E i \in 1..Len(pageEvents) : EndedBeforeToday(pageEvents[i])

\* C28: after a status-change attempt, successful or not, the status of
\* the event open in the details view is that of the event of the same id
\* in the list; Delete closes the details view only when the event was
\* deleted.
C28_DetailsFollowList ==
    [][/\ (StatusSucceeds \/ StatusFails) /\ selectedEvent' # Null =>
             \A i \in 1..Len(pageEvents') :
                 pageEvents'[i].id = selectedEvent'.id =>
                     pageEvents'[i].status = selectedEvent'.status
       /\ /\ selectedEvent # Null
          /\ selectedEvent' = Null
          /\ \/ \E confirmed \in BOOLEAN : ClickDelete(confirmed)
             \/ DeleteSucceeds
             \/ DeleteFails
          => selectedEvent.id \notin EventIds(pageEvents')
      ]_vars

\* The first half of C28 alone.
C28_StatusFollowsList ==
    [][(StatusSucceeds \/ StatusFails) /\ selectedEvent' # Null =>
          \A i \in 1..Len(pageEvents') :
              pageEvents'[i].id = selectedEvent'.id =>
                  pageEvents'[i].status = selectedEvent'.status]_vars

\* The second half of C28 alone.
C28_ClosedOnlyWhenDeleted ==
    [][/\ selectedEvent # Null
       /\ selectedEvent' = Null
       /\ \/ \E confirmed \in BOOLEAN : ClickDelete(confirmed)
          \/ DeleteSucceeds
          \/ DeleteFails
       => selectedEvent.id \notin EventIds(pageEvents')]_vars

(***************************************************************************)
(* useAuth.                                                                *)
(***************************************************************************)

\* C26: once auth:logout has been handled, user stays null until a later
\* successful signIn or signUp, or an auth check started after the logout,
\* sets it; an auth check that was in flight when the logout arrived does
\* not set user back to non-null.
C26_LogoutHolds ==
    [][handledLogout # Null /\ authUser = Null /\ authUser' # Null =>
          \/ AuthCallSucceeds("signIn")
          \/ AuthCallSucceeds("signUp")
          \/ \E id \in authChecks :
                /\ StartedAfterLogout(id)
                /\ GetCurrentUserReturns(id, AdminUser)]_vars

(***************************************************************************)
(* CalendarGrid.                                                           *)
(***************************************************************************)

\* The column (0 = Sunday's) of the cell at position p of the grid.
ColumnOf(p) == (p - 1) % 7

\* Every day of the prop rendered once and in order, each in the column of
\* its weekday, after as many empty cells as the weekday of the first.
InOwnColumns(days, cells) ==
    LET leading == IF days = <<>> THEN 0 ELSE getDay(days[1].date)
    IN  /\ Len(cells) = leading + Len(days)
        /\ \A p \in 1..leading : cells[p].kind = "empty"
        /\ \A i \in 1..Len(days) :
              /\ cells[leading + i] = [kind |-> "day", day |-> days[i]]
              /\ ColumnOf(leading + i) = getDay(days[i].date)

\* C29: for every days array, a full run of dates or a filtered subset,
\* each rendered day cell lands in the grid column of its own weekday
\* (Sunday first), and the number of empty leading cells is the weekday of
\* the first element.
C29_CellsInOwnColumn ==
    gridCells # Null => InOwnColumns(gridDays, gridCells[1])

Consecutive(days) ==
    \A i \in 1..(Len(days) - 1) : days[i + 1].date = days[i].date + 1

\* What holds: the days of a run of consecutive dates land in their columns.
C29_ConsecutiveInOwnColumn ==
    gridCells # Null /\ Consecutive(gridDays) =>
        InOwnColumns(gridDays, gridCells[1])

(***************************************************************************)
(* Multi-day bookings that start before the displayed range.               *)
(***************************************************************************)

\* The raw booking starts before the first displayed date and ends inside
\* the displayed range.
StartsBeforeEndsInside(b) ==
    /\ b.end_date # Null
    /\ Ordinal(DatePart(b.requested_date)) < Ordinal(formatDate(startDate))
    /\ Ordinal(formatDate(startDate)) <= Ordinal(DatePart(b.end_date))
    /\ Ordinal(DatePart(b.end_date)) <= Ordinal(formatDate(endDate))

\* C27: a multi-day raw booking that starts before the first displayed date
\* and ends inside the range is in the booking list of every displayed date
\* it overlaps, and that date's status takes it into account (booked or
\* tentative when nothing is blocked).
C27_EarlyStartShown ==
    Built => \A j \in RawBookings :
        StartsBeforeEndsInside(allBookings[j]) =>
            \A i \in Days :
                Covers(allBookings[j], calendarDays[i].dateString) =>
                    /\ \E b \in SeqRange(calendarDays[i].bookings) :
                          b.id = allBookings[j].id
                    /\ calendarDays[i].status \in {"booked", "tentative"}

\* What the pipeline does with such a booking: Step 1 drops it, no day
\* lists it.
C27_EarlyStartDropped ==
    Built => \A j \in RawBookings :
        StartsBeforeEndsInside(allBookings[j]) =>
            \A i \in Days :
                \A b \in SeqRange(calendarDays[i].bookings) :
                    b.id # allBookings[j].id
====
